---- MODULE Spec2Model ----
(***************************************************************************)
(* The UserPromptSubmit router hook (packages/router/hooks/router.py):     *)
(* the rule loader and merger, the prompt analyzer, the scenario           *)
(* classifier, the hint builder and the driver main().                     *)
(*                                                                         *)
(* Text is a sequence of one-character strings.  JSON values that the code *)
(* reads with dict/list operations carry the JSON type they have in the    *)
(* document ("absent", "object", "array", "number"), and every operation   *)
(* on them behaves as Python's does on a value of that type: a raised      *)
(* exception is the exc field of the operation's result.                   *)
(***************************************************************************)
EXTENDS Integers, Sequences, FiniteSets, TLC

VARIABLES
    stdin,            \* what the caller wrote to standard input
    global_file,      \* the global rules file (ROUTER_RULES_PATH)
    project_file,     \* <cwd>/.claude/router-rules.json
    short_threshold,  \* RouterConfig.short_threshold
    pc,               \* position of main()
    input_data,       \* read_input()'s result
    prompt,           \* input_data.get("prompt", "")
    global_rules,     \* load_global_rules()'s result
    project_rules,    \* load_project_rules()'s result
    merged_rules,     \* merge_rules()'s first result
    project_agents,   \* merge_rules()'s second result
    project_skills,   \* merge_rules()'s third result
    result,           \* the MatchResult
    scenario,         \* determine_scenario()'s result
    hint,             \* build_hint()'s result
    stdout,           \* the JSON objects written so far
    exit_code,        \* the process's exit status, -1 while running
    steps,            \* the steps main() has taken, in order
    validation        \* validate_rules_structure()'s result

vars == <<stdin, global_file, project_file, short_threshold, pc, input_data,
          prompt, global_rules, project_rules, merged_rules, project_agents,
          project_skills, result, scenario, hint, stdout, exit_code, steps, validation>>

-----------------------------------------------------------------------------
(* Bounds of the model *)

\* longest prompt drawn by the analyzer specification
MaxPromptLen == 3
\* largest word count and threshold drawn by the classifier specification
MaxWords == 6

\* router.py:39
DEFAULT_SHORT_THRESHOLD == 5

-----------------------------------------------------------------------------
(* Text *)

Chars == {"a", "b", "A", " ", "+"}

\* \w of Python's re module, on the model's alphabet
IsWordChar(c) == c \in {"a", "b", "A"}

IsSpace(c) == c = " "

LowerChar(c) == IF c = "A" THEN "a" ELSE c

LowerStr(s) == [i \in 1..Len(s) |-> LowerChar(s[i])]

RECURSIVE LStrip(_)
LStrip(s) == IF s # <<>> /\ IsSpace(Head(s)) THEN LStrip(Tail(s)) ELSE s

RECURSIVE RStrip(_)
RStrip(s) ==
    IF s # <<>> /\ IsSpace(s[Len(s)]) THEN RStrip(SubSeq(s, 1, Len(s) - 1)) ELSE s

Strip(s) == RStrip(LStrip(s))

NoLowerNormalize(text) == Strip(text)

\* normalize_text: text.lower().strip()
normalize_text(text) == Strip(LowerStr(text))

\* count_words: len(text.split()), the number of maximal runs of non-space
count_words(text) ==
    Cardinality({i \in 1..Len(text) :
                    /\ ~IsSpace(text[i])
                    /\ (i = 1 \/ IsSpace(text[i - 1]))})

\* t occurs in p starting at position i
OccursAt(t, p, i) ==
    /\ i >= 1
    /\ i + Len(t) - 1 <= Len(p)
    /\ \A k \in 1..Len(t) : p[i + k - 1] = t[k]

\* the positions where t may start in p
Starts(t, p) == 1..(Len(p) - Len(t) + 1)

\* plain substring search
Contains(t, p) == \E i \in Starts(t, p) : OccursAt(t, p, i)

\* \b between p[k] and p[k+1] (k = 0: before the text, k = Len(p): after it)
WordAt(p, k) == k >= 1 /\ k <= Len(p) /\ IsWordChar(p[k])

BoundaryAt(p, k) == WordAt(p, k) # WordAt(p, k + 1)

SubstringTriggerSearch(trigger_lower, prompt_lower) ==
    Contains(trigger_lower, prompt_lower)

\* re.search(r'\b' + re.escape(trigger_lower) + r'\b', prompt_lower)
TriggerSearch(trigger_lower, prompt_lower) ==
    \E i \in Starts(trigger_lower, prompt_lower) :
        /\ OccursAt(trigger_lower, prompt_lower, i)
        /\ BoundaryAt(prompt_lower, i - 1)
        /\ BoundaryAt(prompt_lower, i + Len(trigger_lower) - 1)

\* the trigger loop's test: trigger.lower() searched in the normalized prompt
TriggerHit(trigger, prompt_lower) ==
    TriggerSearch(LowerStr(trigger), prompt_lower)

\* re.search(pattern, prompt_lower, re.IGNORECASE) for a pattern that is a
\* literal text ("lit"); a pattern that does not compile ("bad") raises
\* re.error, which match_skills swallows
PatternHit(pattern, prompt_lower) ==
    /\ pattern.kind = "lit"
    /\ Contains(LowerStr(pattern.text), prompt_lower)

-----------------------------------------------------------------------------
(* Sequences *)

Range(s) == {s[i] : i \in 1..Len(s)}

Take(s, n) == SubSeq(s, 1, IF Len(s) < n THEN Len(s) ELSE n)

RECURSIVE SumSeq(_)
SumSeq(s) == IF s = <<>> THEN 0 ELSE Head(s) + SumSeq(Tail(s))

RECURSIVE Flatten(_)
Flatten(ss) == IF ss = <<>> THEN <<>> ELSE Head(ss) \o Flatten(Tail(ss))

RECURSIVE SelectBy(_, _)
SelectBy(s, keep) ==
    IF s = <<>> THEN <<>>
    ELSE (IF keep[1] THEN <<Head(s)>> ELSE <<>>)
         \o SelectBy(Tail(s), Tail(keep))

\* number of i with flags[i]
CountTrue(flags) == Cardinality({i \in 1..Len(flags) : flags[i]})

\* insert x into a list sorted by descending count, after every entry whose
\* count is not smaller (a stable sort then keeps equal entries in order)
RECURSIVE InsertDesc(_, _)
InsertDesc(sorted, x) ==
    IF sorted = <<>> THEN <<x>>
    ELSE IF Head(sorted).count >= x.count
         THEN <<Head(sorted)>> \o InsertDesc(Tail(sorted), x)
         ELSE <<x>> \o sorted

RECURSIVE SortDescFrom(_, _)
SortDescFrom(sorted, rest) ==
    IF rest = <<>> THEN sorted
    ELSE SortDescFrom(InsertDesc(sorted, Head(rest)), Tail(rest))

UnsortedResults(results) == results

\* a variant that hands the results back in reverse definition order
ReverseResults(results) ==
    [i \in 1..Len(results) |-> results[Len(results) + 1 - i]]

\* results.sort(key=lambda x: x[1], reverse=True): stable, descending
SortByCountDesc(results) == SortDescFrom(<<>>, results)

-----------------------------------------------------------------------------
(* Prompt analyzer *)

\* category_data.get("triggers", []) / skill_data.get("triggers", [])
GetTriggers(d) == IF d.trig = "array" THEN d.triggers ELSE <<>>

\* category_data.get("agents", [])
GetAgents(c) == IF c.agt = "array" THEN c.agents ELSE <<>>

\* the trigger loop of match_agent_categories and match_skills: one per
\* trigger entry found, however often it occurs in the prompt
TriggerCount(d, prompt_lower) ==
    CountTrue([i \in 1..Len(GetTriggers(d)) |->
                  TriggerHit(GetTriggers(d)[i], prompt_lower)])

\* a variant that weighs a pattern like a trigger
SinglePatternWeight(sk, prompt_lower) ==
    CountTrue([i \in 1..Len(sk.patterns) |->
                  PatternHit(sk.patterns[i], prompt_lower)])

\* the pattern loop of match_skills: 2 per pattern found
PatternWeight(sk, prompt_lower) ==
    2 * CountTrue([i \in 1..Len(sk.patterns) |->
                      PatternHit(sk.patterns[i], prompt_lower)])

SkillWeight(sk, prompt_lower) ==
    TriggerCount(sk, prompt_lower) + PatternWeight(sk, prompt_lower)

\* rules.get("agent_categories", {}) / rules.get("skills", {})
Section(t, entries) == IF t = "object" THEN entries ELSE <<>>

\* a variant that looks at the first two agents of the list only
NamesInFirstTwo(agents, names) ==
    LET ns == [i \in 1..Len(Take(agents, 2)) |-> agents[i].name]
    IN  SelectBy(ns, [i \in 1..Len(ns) |-> ns[i] \in names])

\* the names of the agents of a list that are in a set, in list order
NamesIn(agents, names) ==
    LET ns == [i \in 1..Len(agents) |-> agents[i].name]
    IN  SelectBy(ns, [i \in 1..Len(ns) |-> ns[i] \in names])

\* an exception of match_agent_categories: .items() on a number, .get on a
\* category that is a number, iterating triggers or (once the category
\* matched) agents that are a number
CategoriesRaise(prompt_lower, rules) ==
    \/ rules.ac = "number"
    \/ \E i \in 1..Len(Section(rules.ac, rules.categories)) :
          LET c == rules.categories[i]
          IN  \/ c.t # "object"
              \/ c.trig = "number"
              \/ TriggerCount(c, prompt_lower) > 0 /\ c.agt = "number"

match_agent_categories(prompt_, rules, project_agents_) ==
    LET prompt_lower == normalize_text(prompt_)
        categories == Section(rules.ac, rules.categories)
        exc == CategoriesRaise(prompt_lower, rules)
        counts == [i \in 1..Len(categories) |->
                      IF exc THEN 0 ELSE TriggerCount(categories[i], prompt_lower)]
        all == [i \in 1..Len(categories) |->
                   [name |-> categories[i].name,
                    count |-> counts[i],
                    agents |-> GetAgents(categories[i])]]
        hit == SelectBy(all, [i \in 1..Len(all) |-> counts[i] > 0])
    IN  [exc |-> exc,
         results |-> SortByCountDesc(hit),
         matched_project_agents |->
             Flatten([i \in 1..Len(hit) |-> NamesIn(hit[i].agents, project_agents_)])]

\* an exception of match_skills
SkillsRaise(prompt_lower, rules) ==
    \/ rules.sk = "number"
    \/ \E i \in 1..Len(Section(rules.sk, rules.skills)) :
          LET s == rules.skills[i]
          IN  s.t # "object" \/ s.trig = "number"

match_skills(prompt_, rules, project_skills_) ==
    LET prompt_lower == normalize_text(prompt_)
        skills == Section(rules.sk, rules.skills)
        exc == SkillsRaise(prompt_lower, rules)
        counts == [i \in 1..Len(skills) |->
                      IF exc THEN 0 ELSE SkillWeight(skills[i], prompt_lower)]
        all == [i \in 1..Len(skills) |->
                   [name |-> skills[i].name,
                    count |-> counts[i],
                    purpose |-> skills[i].purpose]]
        hit == SelectBy(all, [i \in 1..Len(all) |-> counts[i] > 0])
        hitnames == [i \in 1..Len(hit) |-> hit[i].name]
    IN  [exc |-> exc,
         results |-> SortByCountDesc(hit),
         matched_project_skills |->
             SelectBy(hitnames,
                      [i \in 1..Len(hitnames) |-> hitnames[i] \in project_skills_])]

\* the de-duplication loop of analyze_prompt: agents without a name are
\* dropped, of agents with the same name the first is kept
RECURSIVE Dedup(_, _)
Dedup(agents, seen) ==
    IF agents = <<>> THEN <<>>
    ELSE LET a == Head(agents)
         IN  IF a.name # "" /\ a.name \notin seen
             THEN <<a>> \o Dedup(Tail(agents), seen \cup {a.name})
             ELSE Dedup(Tail(agents), seen)

\* a variant that keeps every agent offered
AllAgents(agents) == agents

\* a variant that drops the agents without a name only
NamedAgents(agents) ==
    SelectBy(agents, [i \in 1..Len(agents) |-> agents[i].name # ""])

\* lines 349-357: the unique agents, in the order they were offered
UniqueAgents(agents) == Dedup(agents, {})

EmptyResult ==
    [matched_categories |-> <<>>, matched_agents |-> <<>>,
     matched_skills |-> <<>>, match_count |-> 0, word_count |-> 0,
     project_matched_agents |-> <<>>, project_matched_skills |-> <<>>,
     has_project_matches |-> FALSE]

analyze_prompt(prompt_, rules, project_agents_, project_skills_) ==
    LET cm == match_agent_categories(prompt_, rules, project_agents_)
        sm == IF cm.exc THEN [exc |-> TRUE, results |-> <<>>,
                              matched_project_skills |-> <<>>]
              ELSE match_skills(prompt_, rules, project_skills_)
        cats == cm.results
        top == Take(sm.results, 3)
        extended == Flatten([i \in 1..Len(cats) |-> Take(cats[i].agents, 2)])
    IN  [exc |-> cm.exc \/ sm.exc,
         res |->
           IF cm.exc \/ sm.exc THEN EmptyResult
           ELSE
            [matched_categories |-> [i \in 1..Len(cats) |-> cats[i].name],
             matched_agents |-> Take(UniqueAgents(extended), 4),
             matched_skills |-> [i \in 1..Len(top) |-> top[i].name],
             match_count |->
                 SumSeq([i \in 1..Len(cats) |-> cats[i].count])
                 + SumSeq([i \in 1..Len(top) |-> top[i].count]),
             word_count |-> count_words(prompt_),
             project_matched_agents |-> cm.matched_project_agents,
             project_matched_skills |-> sm.matched_project_skills,
             has_project_matches |->
                 cm.matched_project_agents # <<>>
                 \/ sm.matched_project_skills # <<>>]]

-----------------------------------------------------------------------------
(* Scenario classifier *)

Scenarios ==
    {"short_no_match", "agents_only", "agents_and_skills", "skills_only",
     "long_no_match"}

NonStrictShort(word_count, threshold) == word_count <= threshold

\* is_short = result.word_count < config.short_threshold
IsShort(word_count, threshold) == word_count < threshold

SkillsFirstScenario(res, threshold) ==
    IF Len(res.matched_skills) > 0 THEN "skills_only"
    ELSE IF Len(res.matched_agents) > 0 THEN "agents_only"
    ELSE IF IsShort(res.word_count, threshold) THEN "short_no_match"
    ELSE "long_no_match"

determine_scenario(res, threshold) ==
    LET has_agents == Len(res.matched_agents) > 0
        has_skills == Len(res.matched_skills) > 0
        is_short == IsShort(res.word_count, threshold)
    IN  IF has_agents /\ has_skills THEN "agents_and_skills"
        ELSE IF has_agents THEN "agents_only"
        ELSE IF has_skills THEN "skills_only"
        ELSE IF is_short THEN "short_no_match"
        ELSE "long_no_match"

-----------------------------------------------------------------------------
(* Hint builder *)

\* A template is a sequence of pieces: literal text, or one of the format
\* fields below.  A hint is a sequence of rendered pieces.
Fields == {"{agent_list}", "{skill_list}", "{other}"}

TemplateKeys ==
    {"short_no_match", "long_no_match", "agents_only", "skills_only",
     "agents_and_skills", "project_agents_only", "project_skills_only",
     "project_agents_and_skills"}

\* router.py:389-392
DefaultShortNoMatch == <<"You are an orchestrator, not an implementer.">>

\* router.py:403-405
DefaultLongNoMatch == <<"You are an orchestrator.">>

\* router.py:441-446
DefaultAgentsOnly ==
    <<"You MUST delegate to one of these subagents:", "{agent_list}",
      "You are an orchestrator - implementation belongs in subagents">>

\* router.py:433-437
DefaultProjectAgentsOnly ==
    <<"MANDATORY DELEGATION.", "{agent_list}",
      "You MUST delegate - no exceptions.">>

\* router.py:479-481
DefaultSkillsOnly ==
    <<"Use these specialized skill(s):", "{skill_list}",
      "Invoke directly or pass to a subagent.">>

\* router.py:473-475
DefaultProjectSkillsOnly ==
    <<"MANDATORY: Use these project-configured skill(s):", "{skill_list}",
      "You MUST use them">>

\* router.py:529-534
DefaultAgentsAndSkills ==
    <<"You MUST delegate to one of these subagents:", "{agent_list}",
      "Pass these skills in the Task prompt:", "{skill_list}",
      "include them explicitly in your delegation prompt.">>

\* router.py:519-525
DefaultProjectAgentsAndSkills ==
    <<"MANDATORY DELEGATION WITH PROJECT SKILLS.", "{agent_list}",
      "Pass these project skills in the Task prompt:", "{skill_list}",
      "Project-specific matches are NOT optional.">>

TextPiece(s) == [k |-> "text", s |-> s, purpose |-> "", mark |-> FALSE]

\* a template returned as it is, without str.format
Unformatted(tpl) == [i \in 1..Len(tpl) |-> TextPiece(tpl[i])]

\* the {} that templates.get(key, {}) falls back to
NoConfig == [present |-> FALSE, has |-> FALSE, tpl |-> <<>>]

\* templates.get(key, fallback) on rules.get("injection_templates", {})
GetConfig(rules, key, fallback) ==
    IF rules.it = "object" /\ rules.templates[key].present
    THEN rules.templates[key]
    ELSE fallback

\* a variant without the built-in default
EmptyDefaultTemplate(config, default_template) ==
    IF config.present /\ config.has THEN config.tpl ELSE <<>>

\* template_config.get("template", default_template)
GetTemplate(config, default_template) ==
    IF config.present /\ config.has THEN config.tpl ELSE default_template

NoFallbackConfig(res, rules, project_key, normal_key) ==
    IF res.has_project_matches
    THEN GetConfig(rules, project_key, NoConfig)
    ELSE GetConfig(rules, normal_key, NoConfig)

\* the template_config chosen by the three match builders:
\* templates.get(project_key, templates.get(normal_key, {})) with project
\* matches, templates.get(normal_key, {}) without
SelectConfig(res, rules, project_key, normal_key) ==
    IF res.has_project_matches
    THEN GetConfig(rules, project_key, GetConfig(rules, normal_key, NoConfig))
    ELSE GetConfig(rules, normal_key, NoConfig)

TwoAgentLines(res) ==
    LET shown == Take(res.matched_agents, 2)
    IN  [i \in 1..Len(shown) |->
            [k |-> "agent",
             s |-> shown[i].name,
             purpose |-> shown[i].purpose,
             mark |-> shown[i].name \in Range(res.project_matched_agents)]]

\* agent_lines: one line for each of result.matched_agents[:3], with the
\* [PROJECT-SPECIFIC] mark for the names in project_matched_agents
AgentLines(res) ==
    LET shown == Take(res.matched_agents, 3)
    IN  [i \in 1..Len(shown) |->
            [k |-> "agent",
             s |-> shown[i].name,
             purpose |-> shown[i].purpose,
             mark |-> shown[i].name \in Range(res.project_matched_agents)]]

\* a variant that never marks a skill
UnmarkedSkillParts(res) ==
    LET shown == Take(res.matched_skills, 3)
    IN  [i \in 1..Len(shown) |->
            [k |-> "skill", s |-> shown[i], purpose |-> "", mark |-> FALSE]]

\* skill_parts: one entry for each of result.matched_skills[:3], with the
\* [PROJECT] mark for the names in project_matched_skills
SkillParts(res) ==
    LET shown == Take(res.matched_skills, 3)
    IN  [i \in 1..Len(shown) |->
            [k |-> "skill",
             s |-> shown[i],
             purpose |-> "",
             mark |-> shown[i] \in Range(res.project_matched_skills)]]

\* template.format(**given): a field that is not among the keyword
\* arguments raises KeyError
Format(tpl, given, agent_list, skill_list) ==
    [exc |-> \E i \in 1..Len(tpl) : tpl[i] \in Fields \ given,
     hint |-> Flatten([i \in 1..Len(tpl) |->
                 IF tpl[i] = "{agent_list}" THEN agent_list
                 ELSE IF tpl[i] = "{skill_list}" THEN skill_list
                 ELSE <<TextPiece(tpl[i])>>])]

\* templates.get(...) on injection_templates that is a number raises
TemplatesRaise(rules) == rules.it = "number"

\* a variant that reads the long_no_match entry
ShortHintFromLongTemplate(rules) ==
    [exc |-> rules.kind # "object" \/ TemplatesRaise(rules),
     hint |-> Unformatted(GetTemplate(GetConfig(rules, "long_no_match", NoConfig),
                                      DefaultLongNoMatch))]

build_short_no_match_hint(rules) ==
    [exc |-> rules.kind # "object" \/ TemplatesRaise(rules),
     hint |-> Unformatted(GetTemplate(GetConfig(rules, "short_no_match", NoConfig),
                                      DefaultShortNoMatch))]

build_long_no_match_hint(rules) ==
    [exc |-> rules.kind # "object" \/ TemplatesRaise(rules),
     hint |-> Unformatted(GetTemplate(GetConfig(rules, "long_no_match", NoConfig),
                                      DefaultLongNoMatch))]

\* line 449: the template build_agents_only_hint formats
agents_only_template(res, rules) ==
    GetTemplate(SelectConfig(res, rules, "project_agents_only", "agents_only"),
                IF res.has_project_matches THEN DefaultProjectAgentsOnly
                ELSE DefaultAgentsOnly)

\* line 484: the template build_skills_only_hint formats
skills_only_template(res, rules) ==
    GetTemplate(SelectConfig(res, rules, "project_skills_only", "skills_only"),
                IF res.has_project_matches THEN DefaultProjectSkillsOnly
                ELSE DefaultSkillsOnly)

\* line 537: the template build_agents_and_skills_hint formats
agents_and_skills_template(res, rules) ==
    GetTemplate(SelectConfig(res, rules, "project_agents_and_skills",
                             "agents_and_skills"),
                IF res.has_project_matches THEN DefaultProjectAgentsAndSkills
                ELSE DefaultAgentsAndSkills)

build_agents_only_hint(res, rules) ==
    LET f == Format(agents_only_template(res, rules), {"{agent_list}"},
                    AgentLines(res), <<>>)
    IN  [exc |-> TemplatesRaise(rules) \/ f.exc, hint |-> f.hint]

build_skills_only_hint(res, rules) ==
    LET f == Format(skills_only_template(res, rules), {"{skill_list}"},
                    <<>>, SkillParts(res))
    IN  [exc |-> TemplatesRaise(rules) \/ f.exc, hint |-> f.hint]

build_agents_and_skills_hint(res, rules) ==
    LET f == Format(agents_and_skills_template(res, rules),
                    {"{agent_list}", "{skill_list}"},
                    AgentLines(res), SkillParts(res))
    IN  [exc |-> TemplatesRaise(rules) \/ f.exc, hint |-> f.hint]

build_hint(scn, res, rules) ==
    IF scn = "short_no_match" THEN build_short_no_match_hint(rules)
    ELSE IF scn = "long_no_match" THEN build_long_no_match_hint(rules)
    ELSE IF scn = "agents_only" THEN build_agents_only_hint(res, rules)
    ELSE IF scn = "skills_only" THEN build_skills_only_hint(res, rules)
    ELSE IF scn = "agents_and_skills" THEN build_agents_and_skills_hint(res, rules)
    ELSE build_long_no_match_hint(rules)

\* the response without a hint (lines 604, 611, 644)
NeutralOutput ==
    [hookEventName |-> "UserPromptSubmit", hasContext |-> FALSE, additionalContext |-> <<>>]

NoContextOutput(h) == NeutralOutput

\* the response build_output returns (lines 568-573, and 597-602 of main)
ContextOutput(h) ==
    [hookEventName |-> "UserPromptSubmit", hasContext |-> TRUE, additionalContext |-> h]

build_output(res, rules, threshold) ==
    LET scn == determine_scenario(res, threshold)
        h == build_hint(scn, res, rules)
    IN  [exc |-> h.exc, scenario |-> scn, hint |-> h.hint,
         output |-> ContextOutput(h.hint)]

-----------------------------------------------------------------------------
(* Rule store loader *)

NoTemplates == [k \in TemplateKeys |-> NoConfig]

\* None, the result of a load that failed
NoneDoc ==
    [kind |-> "none", extra |-> FALSE,
     ac |-> "absent", categories |-> <<>>,
     sk |-> "absent", skills |-> <<>>,
     it |-> "absent", templates |-> NoTemplates,
     ctx |-> "absent", context |-> <<>>,
     trg |-> "absent", triggers |-> <<>>,
     sm |-> "absent", mappings |-> <<>>,
     ca |-> "absent", custom |-> <<>>]

\* no structural validation has been run
NoValidation == [is_valid |-> FALSE, errors |-> <<>>, ran |-> FALSE]

\* load_rules_file: the parsed document, None when the file is missing or
\* does not parse
load_rules_file(file) == IF file.state = "json" THEN file.doc ELSE NoneDoc

\* Python's truth value of a loaded document: None, {} and [] are false
Truthy(doc) ==
    \/ doc.kind = "array"
    \/ /\ doc.kind = "object"
       /\ \/ doc.extra
          \/ \E sec \in {doc.ac, doc.sk, doc.it, doc.ctx, doc.trg, doc.sm} :
                sec # "absent"

AnyKeyValidate(rules) ==
    /\ rules.kind = "object"
    /\ rules.ac # "absent" \/ rules.sk # "absent" \/ rules.it # "absent"

\* validate_rules: all(key in rules for key in required_keys); on a JSON
\* array the membership tests are false
validate_rules(rules) ==
    /\ rules.kind = "object"
    /\ rules.ac # "absent"
    /\ rules.sk # "absent"
    /\ rules.it # "absent"

HasName(entries, n) == \E i \in 1..Len(entries) : entries[i].name = n

IndexOf(entries, n) == CHOOSE i \in 1..Len(entries) : entries[i].name = n

\* the project_context loop: the members of every list value become
\* project skills
MergeContext(st, project) ==
    IF project.ctx = "absent" \/ st.exc THEN st
    ELSE IF project.ctx = "number" THEN [st EXCEPT !.exc = TRUE]
    ELSE [st EXCEPT !.ps = @ \cup UNION {Range(project.context[i].names) :
                            i \in {j \in 1..Len(project.context) :
                                      project.context[j].islist}}]

PrependTrigger(st, e) ==
    IF st.exc THEN st
    ELSE IF st.rules.ac = "number" THEN [st EXCEPT !.exc = TRUE]
    ELSE IF ~HasName(Section(st.rules.ac, st.rules.categories), e.category) THEN st
    ELSE LET i == IndexOf(st.rules.categories, e.category)
             c == st.rules.categories[i]
         IN  IF c.t # "object" \/ c.trig = "number" \/ e.t # "array"
                \/ c.agt = "number"
             THEN [st EXCEPT !.exc = TRUE]
             ELSE [st EXCEPT
                     !.rules.categories[i].trig = "array",
                     !.rules.categories[i].triggers = e.triggers \o GetTriggers(c),
                     !.pa = @ \cup {GetAgents(c)[j].name : j \in 1..Len(GetAgents(c))}]

\* one round of the triggers loop
MergeTrigger(st, e) ==
    IF st.exc THEN st
    ELSE IF st.rules.ac = "number" THEN [st EXCEPT !.exc = TRUE]
    ELSE IF ~HasName(Section(st.rules.ac, st.rules.categories), e.category) THEN st
    ELSE LET i == IndexOf(st.rules.categories, e.category)
             c == st.rules.categories[i]
         IN  IF c.t # "object" \/ c.trig = "number" \/ e.t # "array"
                \/ c.agt = "number"
             THEN [st EXCEPT !.exc = TRUE]
             ELSE [st EXCEPT
                     !.rules.categories[i].trig = "array",
                     !.rules.categories[i].triggers = GetTriggers(c) \o e.triggers,
                     !.pa = @ \cup {GetAgents(c)[j].name : j \in 1..Len(GetAgents(c))}]

ReplaceSkill(st, e) ==
    IF st.exc THEN st
    ELSE IF st.rules.sk = "number" THEN [st EXCEPT !.exc = TRUE]
    ELSE IF HasName(Section(st.rules.sk, st.rules.skills), e.name)
    THEN [st EXCEPT !.rules.skills[IndexOf(st.rules.skills, e.name)] = e,
                    !.ps = @ \cup {e.name}]
    ELSE IF st.rules.sk = "absent" THEN [st EXCEPT !.exc = TRUE]
    ELSE [st EXCEPT !.rules.skills = Append(@, e), !.ps = @ \cup {e.name}]

\* one round of the skills loop
MergeSkill(st, e) ==
    IF st.exc THEN st
    ELSE IF st.rules.sk = "number" THEN [st EXCEPT !.exc = TRUE]
    ELSE IF HasName(Section(st.rules.sk, st.rules.skills), e.name)
    THEN LET i == IndexOf(st.rules.skills, e.name)
             s == st.rules.skills[i]
         IN  IF s.t # "object" \/ e.t # "object" \/ s.trig = "number"
                \/ e.trig = "number"
             THEN [st EXCEPT !.exc = TRUE]
             ELSE [st EXCEPT
                     !.rules.skills[i].trig = "array",
                     !.rules.skills[i].triggers = GetTriggers(s) \o GetTriggers(e),
                     !.ps = @ \cup {e.name}]
    ELSE IF st.rules.sk = "absent" THEN [st EXCEPT !.exc = TRUE]
    ELSE [st EXCEPT !.rules.skills = Append(@, e), !.ps = @ \cup {e.name}]

AlwaysAppendMapping(st, keyword, skill_name) ==
    IF st.exc THEN st
    ELSE IF st.rules.sk = "number" THEN [st EXCEPT !.exc = TRUE]
    ELSE IF ~HasName(Section(st.rules.sk, st.rules.skills), skill_name) THEN st
    ELSE LET i == IndexOf(st.rules.skills, skill_name)
             s == st.rules.skills[i]
         IN  IF s.t # "object" \/ s.trig # "array" THEN [st EXCEPT !.exc = TRUE]
             ELSE [st EXCEPT
                     !.rules.skills[i].triggers = Append(@, keyword),
                     !.ps = @ \cup {skill_name}]

\* a variant that marks every mapped name, known to the rule set or not
MarkEveryMapping(st, keyword, skill_name) ==
    IF st.exc THEN st
    ELSE IF st.rules.sk = "number" THEN [st EXCEPT !.exc = TRUE]
    ELSE IF ~HasName(Section(st.rules.sk, st.rules.skills), skill_name)
    THEN [st EXCEPT !.ps = @ \cup {skill_name}]
    ELSE LET i == IndexOf(st.rules.skills, skill_name)
             s == st.rules.skills[i]
         IN  IF s.t # "object" \/ s.trig = "number" THEN [st EXCEPT !.exc = TRUE]
             ELSE IF keyword \in Range(GetTriggers(s))
             THEN [st EXCEPT !.ps = @ \cup {skill_name}]
             ELSE IF s.trig = "absent" THEN [st EXCEPT !.exc = TRUE]
             ELSE [st EXCEPT
                     !.rules.skills[i].triggers = Append(@, keyword),
                     !.ps = @ \cup {skill_name}]

\* one round of the inner skill_mappings loop
MergeMapping(st, keyword, skill_name) ==
    IF st.exc THEN st
    ELSE IF st.rules.sk = "number" THEN [st EXCEPT !.exc = TRUE]
    ELSE IF ~HasName(Section(st.rules.sk, st.rules.skills), skill_name) THEN st
    ELSE LET i == IndexOf(st.rules.skills, skill_name)
             s == st.rules.skills[i]
         IN  IF s.t # "object" \/ s.trig = "number" THEN [st EXCEPT !.exc = TRUE]
             ELSE IF keyword \in Range(GetTriggers(s))
             THEN [st EXCEPT !.ps = @ \cup {skill_name}]
             ELSE IF s.trig = "absent" THEN [st EXCEPT !.exc = TRUE]
             ELSE [st EXCEPT
                     !.rules.skills[i].triggers = Append(@, keyword),
                     !.ps = @ \cup {skill_name}]

RECURSIVE MergeMappingNames(_, _, _)
MergeMappingNames(st, keyword, names) ==
    IF names = <<>> THEN st
    ELSE MergeMappingNames(MergeMapping(st, keyword, Head(names)), keyword,
                           Tail(names))

RECURSIVE MergeTriggers(_, _)
MergeTriggers(st, entries) ==
    IF entries = <<>> THEN st
    ELSE MergeTriggers(MergeTrigger(st, Head(entries)), Tail(entries))

RECURSIVE MergeSkills(_, _)
MergeSkills(st, entries) ==
    IF entries = <<>> THEN st
    ELSE MergeSkills(MergeSkill(st, Head(entries)), Tail(entries))

RECURSIVE MergeMappings(_, _)
MergeMappings(st, entries) ==
    IF entries = <<>> THEN st
    ELSE LET e == Head(entries)
             next == IF st.exc THEN st
                     ELSE IF e.t # "array" THEN [st EXCEPT !.exc = TRUE]
                     ELSE MergeMappingNames(st, e.keyword, e.skills)
         IN  MergeMappings(next, Tail(entries))

\* .items() on an override section that is a number raises
SectionLoop(st, t) ==
    IF ~st.exc /\ t = "number" THEN [st EXCEPT !.exc = TRUE] ELSE st

NoneRaisesMerge(global, project) ==
    LET st0 == [exc |-> FALSE, rules |-> global, pa |-> {}, ps |-> {}]
    IN  IF project.kind = "none" THEN [st0 EXCEPT !.exc = TRUE]
        ELSE IF ~Truthy(project) \/ project.kind = "array" THEN st0
        ELSE LET st1 == MergeContext(st0, project)
                 st2 == MergeTriggers(SectionLoop(st1, project.trg),
                                      Section(project.trg, project.triggers))
                 st3 == MergeSkills(SectionLoop(st2, project.sk),
                                    Section(project.sk, project.skills))
                 st4 == MergeMappings(SectionLoop(st3, project.sm),
                                      Section(project.sm, project.mappings))
             IN  st4

merge_rules(global, project) ==
    LET st0 == [exc |-> FALSE, rules |-> global, pa |-> {}, ps |-> {}]
    IN  IF ~Truthy(project) \/ project.kind = "array" THEN st0
        ELSE LET st1 == MergeContext(st0, project)
                 st2 == MergeTriggers(SectionLoop(st1, project.trg),
                                      Section(project.trg, project.triggers))
                 st3 == MergeSkills(SectionLoop(st2, project.sk),
                                    Section(project.sk, project.skills))
                 st4 == MergeMappings(SectionLoop(st3, project.sm),
                                      Section(project.sm, project.mappings))
             IN  st4

-----------------------------------------------------------------------------
(* Hook driver *)

\* read_input: {} for empty input and for input that is not JSON, else
\* whatever JSON value was written
read_input(in) ==
    IF in.kind \in {"empty", "notjson"}
    THEN [kind |-> "object", prompt_t |-> "absent", prompt |-> <<>>,
          cwd_t |-> "absent"]
    ELSE in

CatchEverything(e) == TRUE

CatchNothing(e) == FALSE

\* what main()'s "except Exception" catches: sys.exit raises SystemExit,
\* which is not an Exception
HandlerCatches(e) == e = "Exception"

\* control after an exception of class e is raised inside main()'s try
\* block: the handler, or out of main() (exit status 1 for an error, the
\* requested status 0 for SystemExit)
AfterRaise(e) ==
    IF HandlerCatches(e) THEN [pc |-> "handler", exit_code |-> -1]
    ELSE [pc |-> "exited", exit_code |-> IF e = "SystemExit" THEN 0 ELSE 1]

\* lines 585-592: read the request, take the prompt, choose the branch
ReadInput ==
    /\ pc = "start"
    /\ LET data == read_input(stdin)
           exc == data.kind # "object" \/ data.prompt_t = "number"
           p == IF data.prompt_t = "string" THEN data.prompt ELSE <<>>
       IN  /\ input_data' = data
           /\ prompt' = p
           /\ pc' = IF exc THEN AfterRaise("Exception").pc
                    ELSE IF p = <<>> THEN "empty_prompt"
                    ELSE "load_global"
           /\ exit_code' = IF exc THEN AfterRaise("Exception").exit_code ELSE -1
    /\ steps' = Append(steps, "read_input")
    /\ UNCHANGED <<validation, stdin, global_file, project_file, short_threshold,
                   global_rules, project_rules, merged_rules, project_agents,
                   project_skills, result, scenario, hint, stdout>>

\* lines 593-604: the empty-prompt branch, up to its write_output
EmptyPrompt ==
    /\ pc = "empty_prompt"
    /\ LET rules == load_rules_file(global_file)
           h == build_short_no_match_hint(rules)
           exc == Truthy(rules) /\ h.exc
       IN  /\ global_rules' = rules
           /\ hint' = IF Truthy(rules) /\ ~exc THEN h.hint ELSE hint
           /\ stdout' = IF exc THEN stdout
                        ELSE IF Truthy(rules) THEN Append(stdout, ContextOutput(h.hint))
                        ELSE Append(stdout, NeutralOutput)
           /\ pc' = IF exc THEN AfterRaise("Exception").pc ELSE "sys_exit"
           /\ exit_code' = IF exc THEN AfterRaise("Exception").exit_code ELSE -1
           /\ steps' = steps \o <<"load_global">>
                        \o (IF Truthy(rules) THEN <<"build_hint">> ELSE <<>>)
                        \o (IF exc THEN <<>> ELSE <<"emit">>)
    /\ UNCHANGED <<validation, stdin, global_file, project_file, short_threshold,
                   input_data, prompt, project_rules, merged_rules,
                   project_agents, project_skills, result, scenario>>

\* lines 608-611: load and validate the global rules
LoadGlobalRules ==
    /\ pc = "load_global"
    /\ LET rules == load_rules_file(global_file)
           failed == rules.kind = "none" \/ ~validate_rules(rules)
       IN  /\ global_rules' = rules
           /\ stdout' = IF failed THEN Append(stdout, NeutralOutput) ELSE stdout
           /\ pc' = IF failed THEN "sys_exit" ELSE "load_project"
           /\ steps' = steps \o <<"load_global">>
                        \o (IF rules.kind = "none" THEN <<>> ELSE <<"validate">>)
                        \o (IF failed THEN <<"emit">> ELSE <<>>)
    /\ UNCHANGED <<validation, stdin, global_file, project_file, short_threshold,
                   input_data, prompt, project_rules, merged_rules,
                   project_agents, project_skills, result, scenario, hint,
                   exit_code>>

\* lines 605 and 612: sys.exit(0) inside the try block
SysExit ==
    /\ pc = "sys_exit"
    /\ pc' = AfterRaise("SystemExit").pc
    /\ exit_code' = AfterRaise("SystemExit").exit_code
    /\ steps' = Append(steps, "sys_exit")
    /\ UNCHANGED <<validation, stdin, global_file, project_file, short_threshold,
                   input_data, prompt, global_rules, project_rules,
                   merged_rules, project_agents, project_skills, result,
                   scenario, hint, stdout>>

\* line 614, load_project_rules: the cwd of the request, else the process's
\* own; no cwd gives None, a cwd that is a number makes os.path.join raise
LoadProjectRules ==
    /\ pc = "load_project"
    /\ LET exc == input_data.cwd_t = "number"
       IN  /\ project_rules' = IF exc \/ input_data.cwd_t = "empty"
                               THEN NoneDoc
                               ELSE load_rules_file(project_file)
           /\ pc' = IF exc THEN AfterRaise("Exception").pc ELSE "merge"
           /\ exit_code' = IF exc THEN AfterRaise("Exception").exit_code ELSE -1
    /\ steps' = Append(steps, "load_project")
    /\ UNCHANGED <<validation, stdin, global_file, project_file, short_threshold,
                   input_data, prompt, global_rules, merged_rules,
                   project_agents, project_skills, result, scenario, hint,
                   stdout>>

\* lines 618-625: merge_rules, then the debug message, whose arguments are
\* evaluated whether or not debugging is on: len() of a section that is a
\* number raises TypeError
MergeRules ==
    /\ pc = "merge"
    /\ LET m == merge_rules(global_rules, project_rules)
           exc == m.exc \/ m.rules.ac = "number" \/ m.rules.sk = "number"
       IN  /\ merged_rules' = IF m.exc THEN merged_rules ELSE m.rules
           /\ project_agents' = IF m.exc THEN project_agents ELSE m.pa
           /\ project_skills' = IF m.exc THEN project_skills ELSE m.ps
           /\ pc' = IF exc THEN AfterRaise("Exception").pc ELSE "analyze"
           /\ exit_code' = IF exc THEN AfterRaise("Exception").exit_code ELSE -1
    /\ steps' = Append(steps, "merge")
    /\ UNCHANGED <<validation, stdin, global_file, project_file, short_threshold,
                   input_data, prompt, global_rules, project_rules, result,
                   scenario, hint, stdout>>

\* line 627
AnalyzePrompt ==
    /\ pc = "analyze"
    /\ LET a == analyze_prompt(prompt, merged_rules, project_agents, project_skills)
       IN  /\ result' = IF a.exc THEN result ELSE a.res
           /\ pc' = IF a.exc THEN AfterRaise("Exception").pc ELSE "build"
           /\ exit_code' = IF a.exc THEN AfterRaise("Exception").exit_code ELSE -1
    /\ steps' = Append(steps, "analyze")
    /\ UNCHANGED <<validation, stdin, global_file, project_file, short_threshold,
                   input_data, prompt, global_rules, project_rules,
                   merged_rules, project_agents, project_skills, scenario,
                   hint, stdout>>

\* line 636, build_output: classify, then build the hint
BuildOutput ==
    /\ pc = "build"
    /\ LET b == build_output(result, merged_rules, short_threshold)
       IN  /\ scenario' = b.scenario
           /\ hint' = IF b.exc THEN hint ELSE b.hint
           /\ pc' = IF b.exc THEN AfterRaise("Exception").pc ELSE "write"
           /\ exit_code' = IF b.exc THEN AfterRaise("Exception").exit_code ELSE -1
    /\ steps' = steps \o <<"classify", "build_hint">>
    /\ UNCHANGED <<validation, stdin, global_file, project_file, short_threshold,
                   input_data, prompt, global_rules, project_rules,
                   merged_rules, project_agents, project_skills, result,
                   stdout>>

\* line 637
WriteOutput ==
    /\ pc = "write"
    /\ stdout' = Append(stdout, ContextOutput(hint))
    /\ pc' = "final_exit"
    /\ steps' = Append(steps, "emit")
    /\ UNCHANGED <<validation, stdin, global_file, project_file, short_threshold,
                   input_data, prompt, global_rules, project_rules,
                   merged_rules, project_agents, project_skills, result,
                   scenario, hint, exit_code>>

\* lines 642-644: the top-level handler
HandleException ==
    /\ pc = "handler"
    /\ stdout' = Append(stdout, NeutralOutput)
    /\ pc' = "final_exit"
    /\ steps' = steps \o <<"handler", "emit">>
    /\ UNCHANGED <<validation, stdin, global_file, project_file, short_threshold,
                   input_data, prompt, global_rules, project_rules,
                   merged_rules, project_agents, project_skills, result,
                   scenario, hint, exit_code>>

\* line 646: sys.exit(0) after the try block
FinalExit ==
    /\ pc = "final_exit"
    /\ pc' = "exited"
    /\ exit_code' = 0
    /\ steps' = Append(steps, "exit")
    /\ UNCHANGED <<validation, stdin, global_file, project_file, short_threshold,
                   input_data, prompt, global_rules, project_rules,
                   merged_rules, project_agents, project_skills, result,
                   scenario, hint, stdout>>

Next ==
    \/ ReadInput
    \/ EmptyPrompt
    \/ LoadGlobalRules
    \/ SysExit
    \/ LoadProjectRules
    \/ MergeRules
    \/ AnalyzePrompt
    \/ BuildOutput
    \/ WriteOutput
    \/ HandleException
    \/ FinalExit

-----------------------------------------------------------------------------
(* The inputs the specifications draw from *)

Agent(n, p) == [name |-> n, purpose |-> p]

Category(n, trig, triggers, agt, agents) ==
    [name |-> n, t |-> "object", trig |-> trig, triggers |-> triggers,
     agt |-> agt, agents |-> agents]

Skill(n, trig, triggers, patterns) ==
    [name |-> n, t |-> "object", trig |-> trig, triggers |-> triggers,
     patterns |-> patterns, purpose |-> n]

Lit(text) == [kind |-> "lit", text |-> text]

BadPattern == [kind |-> "bad", text |-> <<"+">>]

\* an entry that is a JSON number where the code expects an object
NumberCategory(n) ==
    [name |-> n, t |-> "number", trig |-> "absent", triggers |-> <<>>,
     agt |-> "absent", agents |-> <<>>]

NumberSkill(n) ==
    [name |-> n, t |-> "number", trig |-> "absent", triggers |-> <<>>,
     patterns |-> <<>>, purpose |-> ""]

Config(tpl) == [present |-> TRUE, has |-> TRUE, tpl |-> tpl]

ConfigWithoutTemplate == [present |-> TRUE, has |-> FALSE, tpl |-> <<>>]

Templates(f) == [k \in TemplateKeys |-> IF k \in DOMAIN f THEN f[k] ELSE NoConfig]

RulesDoc(categories, skills, templates) ==
    [NoneDoc EXCEPT !.kind = "object", !.extra = TRUE,
                    !.ac = "object", !.categories = categories,
                    !.sk = "object", !.skills = skills,
                    !.it = "object", !.templates = templates]

Xs == <<Agent("x1", "p1"), Agent("x2", "p2"), Agent("x3", "p3")>>

Ys == <<Agent("y1", "q1"), Agent("x1", "p1"), Agent("y2", "q2")>>

\* no custom templates; two categories of three agents sharing one agent
RulesA ==
    RulesDoc(<<Category("dev", "array", <<<<"a">>, <<"a", "b">>>>, "array", Xs),
               Category("qa", "array", <<<<"b">>, <<"A">>>>, "array", Ys)>>,
             <<Skill("s1", "array", <<<<"b">>>>, <<Lit(<<"a", "b">>)>>),
               Skill("s2", "array", <<<<"a", "+">>>>, <<BadPattern, Lit(<<"A", " ">>)>>)>>,
             NoTemplates)

\* categories without agents or with an unnamed agent; a custom normal
\* template without its project counterpart
RulesB ==
    RulesDoc(<<Category("none", "array", <<<<"a">>>>, "array", <<>>),
               Category("anon", "array", <<<<"b">>>>, "array", <<Agent("", "p0")>>),
               Category("dev", "array", <<<<"a", "b">>, <<"+">>>>, "array",
                        <<Agent("x1", "p1"), Agent("x2", "p2")>>)>>,
             <<Skill("s1", "array", <<<<"b">>>>, <<>>),
               Skill("s2", "array", <<<<"a", " ", "a">>>>, <<>>)>>,
             Templates([agents_only |-> Config(<<"custom agents:", "{agent_list}">>),
                        skills_only |-> Config(<<"custom skills:", "{skill_list}">>),
                        project_skills_only |->
                            Config(<<"custom project skills:", "{skill_list}">>),
                        short_no_match |-> Config(<<"custom short">>),
                        agents_and_skills |-> ConfigWithoutTemplate]))

\* two categories of two agents; templates without the agent list, with a
\* field str.format is not given, and a project entry without a template
RulesC ==
    RulesDoc(<<Category("dev", "array", <<<<"a">>>>, "array",
                        <<Agent("x1", "p1"), Agent("x2", "p2")>>),
               Category("qa", "array", <<<<"b">>, <<"a", "b">>>>, "array",
                        <<Agent("y1", "q1"), Agent("y2", "q2")>>)>>,
             <<Skill("s1", "array", <<<<"+">>>>, <<Lit(<<"a", "a">>)>>)>>,
             Templates([agents_only |-> Config(<<"custom, no list">>),
                        project_agents_only |-> ConfigWithoutTemplate,
                        skills_only |-> Config(<<"custom:", "{other}">>),
                        long_no_match |-> Config(<<"custom long", "{agent_list}">>),
                        project_agents_and_skills |->
                            Config(<<"custom project both:", "{agent_list}",
                                     "{skill_list}">>)]))

GoodRules == {RulesA, RulesB, RulesC}

\* the structural violations of section 4.1, one per document
BrokenRules ==
    {[RulesA EXCEPT !.ac = "number", !.categories = <<>>],
     [RulesA EXCEPT !.sk = "number", !.skills = <<>>],
     [RulesA EXCEPT !.it = "number"],
     [RulesA EXCEPT !.categories = <<NumberCategory("dev")>>],
     [RulesA EXCEPT !.categories[1].trig = "absent", !.categories[1].triggers = <<>>],
     [RulesA EXCEPT !.categories[1].trig = "number", !.categories[1].triggers = <<>>],
     [RulesA EXCEPT !.categories[1].agt = "absent", !.categories[1].agents = <<>>],
     [RulesA EXCEPT !.categories[1].agt = "number", !.categories[1].agents = <<>>],
     [RulesA EXCEPT !.skills = <<NumberSkill("s1")>>],
     [RulesA EXCEPT !.skills[1].trig = "absent", !.skills[1].triggers = <<>>],
     [RulesA EXCEPT !.skills[1].trig = "number", !.skills[1].triggers = <<>>]}

\* documents without one of the required keys, {} and a JSON array
KeylessRules ==
    {[RulesA EXCEPT !.ac = "absent", !.categories = <<>>],
     [RulesA EXCEPT !.sk = "absent", !.skills = <<>>],
     [RulesA EXCEPT !.it = "absent", !.templates = NoTemplates],
     [NoneDoc EXCEPT !.kind = "object", !.extra = TRUE],
     [NoneDoc EXCEPT !.kind = "object"],
     [NoneDoc EXCEPT !.kind = "array"]}

File(doc) == [state |-> "json", doc |-> doc]

MissingFiles == {[state |-> "absent", doc |-> NoneDoc],
                 [state |-> "unparseable", doc |-> NoneDoc]}

GlobalFiles ==
    MissingFiles \cup {File(d) : d \in GoodRules \cup BrokenRules \cup KeylessRules}

ProjectDoc(ctx, context, trg, triggers, sk, skills, sm, mappings) ==
    [NoneDoc EXCEPT !.kind = "object", !.extra = TRUE,
                    !.ctx = ctx, !.context = context,
                    !.trg = trg, !.triggers = triggers,
                    !.sk = sk, !.skills = skills,
                    !.sm = sm, !.mappings = mappings]

TriggerOverride(c, triggers) == [category |-> c, t |-> "array", triggers |-> triggers]

Mapping(keyword, skills) == [keyword |-> keyword, t |-> "array", skills |-> skills]

\* more triggers for dev, a known and a new skill, a keyword mapped to skills
ProjectA ==
    ProjectDoc("object", <<[islist |-> FALSE, names |-> <<>>],
                           [islist |-> TRUE, names |-> <<"ctx">>]>>,
               "object", <<TriggerOverride("dev", <<<<"b">>>>),
                           TriggerOverride("nocat", <<<<"a">>>>)>>,
               "object", <<Skill("s1", "array", <<<<"a">>>>, <<>>),
                           Skill("s9", "array", <<<<"a", "b">>>>, <<>>)>>,
               "object", <<Mapping(<<"b">>, <<"s1", "s2", "nosuch">>)>>)

\* only a mapping
ProjectB ==
    ProjectDoc("absent", <<>>, "absent", <<>>, "absent", <<>>,
               "object", <<Mapping(<<"a">>, <<"s2">>)>>)

\* only a trigger override for qa
ProjectC ==
    ProjectDoc("absent", <<>>, "object", <<TriggerOverride("qa", <<<<"+">>>>)>>,
               "absent", <<>>, "absent", <<>>)

GoodProjects == {ProjectA, ProjectB, ProjectC}

\* override sections of the wrong JSON type
BrokenProjects ==
    {[ProjectB EXCEPT !.sm = "number", !.mappings = <<>>],
     [ProjectC EXCEPT !.trg = "number", !.triggers = <<>>],
     [ProjectC EXCEPT !.triggers[1].t = "number", !.triggers[1].triggers = <<>>],
     [ProjectB EXCEPT !.sk = "number"],
     [ProjectB EXCEPT !.ctx = "number"],
     [ProjectB EXCEPT !.sk = "object", !.skills = <<NumberSkill("s1")>>],
     [ProjectB EXCEPT !.mappings[1].t = "number", !.mappings[1].skills = <<>>]}

ProjectFiles ==
    MissingFiles
    \cup {File(d) : d \in GoodProjects \cup BrokenProjects}
    \cup {File([NoneDoc EXCEPT !.kind = "object"]),
          File([NoneDoc EXCEPT !.kind = "array"])}

\* the prompts of the driver's requests
DriverPrompts ==
    {<<>>, <<" ">>, <<"a">>, <<"A", " ", "b">>, <<"a", "b">>, <<"+", " ", "b">>,
     <<"b", " ", "b">>}

Request(prompt_t, p, cwd_t) ==
    [kind |-> "object", prompt_t |-> prompt_t, prompt |-> p, cwd_t |-> cwd_t]

StdinInputs ==
    {[kind |-> k, prompt_t |-> "absent", prompt |-> <<>>, cwd_t |-> "absent"] :
        k \in {"empty", "notjson", "array"}}
    \cup {Request("absent", <<>>, "string"), Request("number", <<>>, "string")}
    \cup {Request("string", p, "absent") : p \in DriverPrompts}
    \cup {Request("string", <<"a">>, c) : c \in {"string", "empty", "number"}}

\* ROUTER_SHORT_THRESHOLD values: the default and one a short prompt reaches
Thresholds == {DEFAULT_SHORT_THRESHOLD, 2}

Init ==
    /\ stdin \in StdinInputs
    /\ global_file \in GlobalFiles
    /\ project_file \in ProjectFiles
    /\ short_threshold \in Thresholds
    /\ pc = "start"
    /\ input_data = Request("absent", <<>>, "absent")
    /\ prompt = <<>>
    /\ global_rules = NoneDoc
    /\ project_rules = NoneDoc
    /\ merged_rules = NoneDoc
    /\ project_agents = {}
    /\ project_skills = {}
    /\ result = EmptyResult
    /\ scenario = "none"
    /\ hint = <<>>
    /\ stdout = <<>>
    /\ exit_code = -1
    /\ steps = <<>>
    /\ validation = NoValidation

Spec == Init /\ [][Next]_vars

-----------------------------------------------------------------------------
(* The analyzer, classifier and hint builder on every short prompt *)

Prompts == UNION {[1..n -> Chars] : n \in 0..MaxPromptLen}

\* three categories that one prompt hits, with more than four agents between
\* them, and one it does not hit; four skills that one prompt hits, one with
\* a malformed pattern
RulesD ==
    RulesDoc(<<Category("dev", "array", <<<<"a">>>>, "array",
                        <<Agent("x2", "p2"), Agent("x3", "p3"), Agent("x1", "p1")>>),
               Category("qa", "array", <<<<"a">>, <<"b">>>>, "array",
                        <<Agent("y1", "q1"), Agent("y2", "q2")>>),
               Category("ops", "array", <<<<"A">>>>, "array",
                        <<Agent("y1", "q1"), Agent("z1", "r1"), Agent("z2", "r2")>>),
               Category("doc", "array", <<<<"+">>>>, "array", <<Agent("z2", "r2")>>)>>,
             <<Skill("s2", "array", <<<<"a">>>>, <<Lit(<<"a">>)>>),
               Skill("s3", "array", <<<<"b">>, <<"b">>>>, <<>>),
               Skill("s4", "array", <<<<"b">>>>, <<BadPattern, Lit(<<"b">>)>>),
               Skill("s1", "array", <<<<"a">>>>, <<>>)>>,
             NoTemplates)

AnalyzerRules == GoodRules \cup {RulesD}

\* project-sourced agent and skill names handed to analyze_prompt
Provenances ==
    {<<{}, {}>>, <<{"x1"}, {}>>, <<{}, {"s1"}>>, <<{"y2", ""}, {"s2"}>>}

InitAnalyze ==
    /\ stdin = Request("absent", <<>>, "absent")
    /\ global_file = [state |-> "absent", doc |-> NoneDoc]
    /\ project_file = [state |-> "absent", doc |-> NoneDoc]
    /\ short_threshold \in Thresholds
    /\ pc = "analyze"
    /\ input_data = Request("absent", <<>>, "absent")
    /\ prompt \in Prompts
    /\ global_rules = NoneDoc
    /\ project_rules = NoneDoc
    /\ merged_rules \in AnalyzerRules
    /\ \E pv \in Provenances : project_agents = pv[1] /\ project_skills = pv[2]
    /\ result = EmptyResult
    /\ scenario = "none"
    /\ hint = <<>>
    /\ stdout = <<>>
    /\ exit_code = -1
    /\ steps = <<>>
    /\ validation = NoValidation

NextAnalyze ==
    \/ AnalyzePrompt
    \/ BuildOutput
    \/ WriteOutput
    \/ HandleException
    \/ FinalExit

SpecAnalyze == InitAnalyze /\ [][NextAnalyze]_vars

-----------------------------------------------------------------------------
(* The classifier on every match outcome, word count and threshold *)

ResultWith(agents, skills, wc) ==
    [EmptyResult EXCEPT !.matched_agents = agents, !.matched_skills = skills,
                        !.word_count = wc,
                        !.match_count = Len(agents) + Len(skills)]

InitScenario ==
    /\ stdin = Request("absent", <<>>, "absent")
    /\ global_file = [state |-> "absent", doc |-> NoneDoc]
    /\ project_file = [state |-> "absent", doc |-> NoneDoc]
    /\ short_threshold \in 0..(MaxWords + 1)
    /\ pc = "classify"
    /\ input_data = Request("absent", <<>>, "absent")
    /\ prompt = <<>>
    /\ global_rules = NoneDoc
    /\ project_rules = NoneDoc
    /\ merged_rules = NoneDoc
    /\ project_agents = {}
    /\ project_skills = {}
    /\ \E agents \in {<<>>, <<Xs[1]>>, <<Xs[1], Xs[2]>>},
          skills \in {<<>>, <<"s1">>, <<"s1", "s2">>},
          wc \in 0..MaxWords :
            result = ResultWith(agents, skills, wc)
    /\ scenario = "none"
    /\ hint = <<>>
    /\ stdout = <<>>
    /\ exit_code = -1
    /\ steps = <<>>
    /\ validation = NoValidation

\* determine_scenario applied to the drawn MatchResult and threshold
Classify ==
    /\ pc = "classify"
    /\ scenario' = determine_scenario(result, short_threshold)
    /\ pc' = "classified"
    /\ steps' = Append(steps, "classify")
    /\ UNCHANGED <<validation, stdin, global_file, project_file, short_threshold,
                   input_data, prompt, global_rules, project_rules,
                   merged_rules, project_agents, project_skills, result,
                   hint, stdout, exit_code>>

NextScenario == Classify

SpecScenario == InitScenario /\ [][NextScenario]_vars

-----------------------------------------------------------------------------
(* merge_rules on global rule sets and project documents *)

\* a rule set with the catch-all category
RulesU ==
    RulesDoc(<<Category("dev", "array", <<<<"a">>>>, "array",
                        <<Agent("x1", "p1"), Agent("x2", "p2")>>),
               Category("utility", "array", <<<<"b">>>>, "array",
                        <<Agent("u1", "pu")>>)>>,
             <<Skill("s1", "array", <<<<"b">>>>, <<Lit(<<"a", "b">>)>>)>>,
             NoTemplates)

\* an entry of the project document's custom_agents
CustomAgent(n, has_description, triggers) ==
    [name |-> n, has_description |-> has_description, description |-> "d",
     triggers |-> triggers]

\* a project skill record whose purpose and patterns differ from the global's
ProjectSkill(n, trig, triggers) ==
    [Skill(n, trig, triggers, <<Lit(<<"b">>)>>) EXCEPT !.purpose = "project"]

TriggerChoices ==
    {<<>>,
     <<TriggerOverride("dev", <<<<"b">>>>)>>,
     <<TriggerOverride("qa", <<<<"+">>>>), TriggerOverride("nocat", <<<<"a">>>>)>>,
     <<TriggerOverride("dev", <<<<"a">>, <<"a">>>>)>>}

SkillChoices ==
    {<<>>,
     <<ProjectSkill("s1", "array", <<<<"a">>>>)>>,
     <<ProjectSkill("s9", "array", <<<<"a", "b">>>>)>>,
     <<ProjectSkill("s1", "absent", <<>>), ProjectSkill("s9", "array", <<<<"b">>>>)>>}

MappingChoices ==
    {<<>>,
     <<Mapping(<<"b">>, <<"s1", "s2", "nosuch">>)>>,
     <<Mapping(<<"a">>, <<"s2", "s9">>)>>,
     <<Mapping(<<"a">>, <<"s9", "s1">>), Mapping(<<"b">>, <<"s1", "s1">>)>>}

CustomChoices ==
    {<<>>,
     <<CustomAgent("z1", TRUE, <<<<"a", "b">>>>)>>,
     <<CustomAgent("z1", FALSE, <<>>), CustomAgent("z2", TRUE, <<<<"+">>>>)>>}

SectionType(entries) == IF entries = <<>> THEN "absent" ELSE "object"

\* the project documents handed to merge_rules: None, every combination of
\* the override sections, a new skill without triggers that a mapping
\* names, and sections of the wrong JSON type
MergeProjects ==
    {NoneDoc}
    \cup {[ProjectDoc("absent", <<>>, SectionType(trg), trg, SectionType(sk), sk,
                      SectionType(sm), sm)
             EXCEPT !.ca = SectionType(ca), !.custom = ca] :
            trg \in TriggerChoices, sk \in SkillChoices, sm \in MappingChoices,
            ca \in CustomChoices}
    \cup {ProjectDoc("absent", <<>>, "absent", <<>>,
                     "object", <<ProjectSkill("s9", "absent", <<>>)>>,
                     "object", <<Mapping(<<"b">>, <<"s9">>)>>)}
    \cup GoodProjects \cup BrokenProjects

MergeGlobals == GoodRules \cup {RulesU}

\* main() about to call merge_rules
InitMerge ==
    /\ stdin = Request("string", <<"a">>, "string")
    /\ input_data = stdin
    /\ prompt = <<"a">>
    /\ global_rules \in MergeGlobals
    /\ global_file = File(global_rules)
    /\ project_rules \in MergeProjects
    /\ project_file = IF project_rules = NoneDoc
                      THEN [state |-> "absent", doc |-> NoneDoc]
                      ELSE File(project_rules)
    /\ short_threshold = DEFAULT_SHORT_THRESHOLD
    /\ pc = "merge"
    /\ merged_rules = NoneDoc
    /\ project_agents = {}
    /\ project_skills = {}
    /\ result = EmptyResult
    /\ scenario = "none"
    /\ hint = <<>>
    /\ stdout = <<>>
    /\ exit_code = -1
    /\ steps = <<"read_input", "load_global", "validate", "load_project">>
    /\ validation = NoValidation

NextMerge ==
    \/ MergeRules
    \/ HandleException
    \/ FinalExit

SpecMerge == InitMerge /\ [][NextMerge]_vars

-----------------------------------------------------------------------------
(* Structural validation of the global rules: validate_rules_structure,
   which the tests import from the router module *)

\* a required top-level key: present, and a mapping
SectionErrors(t, key) ==
    IF t = "absent" THEN << <<"Missing required key", key>> >>
    ELSE IF t # "object" THEN << <<key, "must be an object">> >>
    ELSE <<>>

\* a field of a category or skill that has to be a sequence
FieldErrors(section, n, field, t) ==
    IF t = "absent" THEN << <<section, n, "missing", field>> >>
    ELSE IF t # "array" THEN << <<section, n, field, "must be an array">> >>
    ELSE <<>>

CategoryErrors(c) ==
    IF c.t # "object" THEN << <<"agent_categories", c.name, "must be an object">> >>
    ELSE FieldErrors("agent_categories", c.name, "triggers", c.trig)
         \o FieldErrors("agent_categories", c.name, "agents", c.agt)

SkillErrors(sk) ==
    IF sk.t # "object" THEN << <<"skills", sk.name, "must be an object">> >>
    ELSE FieldErrors("skills", sk.name, "triggers", sk.trig)

\* every violation, in document order
AllStructureErrors(rules) ==
    LET cs == Section(rules.ac, rules.categories)
        ss == Section(rules.sk, rules.skills)
    IN  SectionErrors(rules.ac, "agent_categories")
        \o Flatten([i \in 1..Len(cs) |-> CategoryErrors(cs[i])])
        \o SectionErrors(rules.sk, "skills")
        \o Flatten([i \in 1..Len(ss) |-> SkillErrors(ss[i])])
        \o SectionErrors(rules.it, "injection_templates")

FirstErrorOnly(rules) ==
    LET errors == Take(AllStructureErrors(rules), 1)
    IN  [is_valid |-> errors = <<>>, errors |-> errors, ran |-> TRUE]

\* (is_valid, errors)
validate_rules_structure(rules) ==
    LET errors == AllStructureErrors(rules)
    IN  [is_valid |-> errors = <<>>, errors |-> errors, ran |-> TRUE]

\* {"agent_categories": {}, "skills": {}, "injection_templates": {}}
EmptyTypedRules ==
    [NoneDoc EXCEPT !.kind = "object", !.ac = "object", !.sk = "object",
                    !.it = "object"]

GoodCategory == Category("dev", "array", <<<<"a">>>>, "array", Xs)

GoodSkill == Skill("s1", "array", <<<<"b">>>>, <<>>)

\* category lists: well-formed, and with one, two and three violations
CategoryLists ==
    {<<>>,
     <<GoodCategory>>,
     <<NumberCategory("dev")>>,
     <<[GoodCategory EXCEPT !.trig = "absent", !.triggers = <<>>]>>,
     <<[GoodCategory EXCEPT !.trig = "number", !.triggers = <<>>,
                            !.agt = "absent", !.agents = <<>>]>>,
     <<GoodCategory,
       [GoodCategory EXCEPT !.name = "qa", !.agt = "number", !.agents = <<>>]>>,
     <<[GoodCategory EXCEPT !.trig = "absent", !.triggers = <<>>],
       [GoodCategory EXCEPT !.name = "qa", !.trig = "number", !.triggers = <<>>,
                            !.agt = "number", !.agents = <<>>]>>}

SkillLists ==
    {<<>>,
     <<GoodSkill>>,
     <<NumberSkill("s1")>>,
     <<[GoodSkill EXCEPT !.trig = "absent", !.triggers = <<>>]>>,
     <<GoodSkill, [GoodSkill EXCEPT !.name = "s2", !.trig = "number",
                                    !.triggers = <<>>]>>}

SectionTypes == {"absent", "number", "object"}

\* the documents validation is applied to
ValidationDocs ==
    {[NoneDoc EXCEPT !.kind = "object", !.extra = TRUE,
                     !.ac = ac, !.categories = cs,
                     !.sk = sk, !.skills = ss, !.it = it] :
        ac \in SectionTypes, sk \in SectionTypes, it \in SectionTypes,
        cs \in CategoryLists, ss \in SkillLists}

WellPlaced(doc) ==
    /\ doc.ac # "object" => doc.categories = <<>>
    /\ doc.sk # "object" => doc.skills = <<>>

InitValidate ==
    /\ stdin = Request("absent", <<>>, "absent")
    /\ \E d \in {EmptyTypedRules} \cup {x \in ValidationDocs : WellPlaced(x)} :
          global_file = File(d) /\ global_rules = d
    /\ project_file = [state |-> "absent", doc |-> NoneDoc]
    /\ short_threshold = DEFAULT_SHORT_THRESHOLD
    /\ pc = "validate_structure"
    /\ input_data = Request("absent", <<>>, "absent")
    /\ prompt = <<>>
    /\ project_rules = NoneDoc
    /\ merged_rules = NoneDoc
    /\ project_agents = {}
    /\ project_skills = {}
    /\ result = EmptyResult
    /\ scenario = "none"
    /\ hint = <<>>
    /\ stdout = <<>>
    /\ exit_code = -1
    /\ steps = <<>>
    /\ validation = NoValidation

\* validate_rules_structure applied to the loaded document
ValidateStructure ==
    /\ pc = "validate_structure"
    /\ validation' = validate_rules_structure(global_rules)
    /\ pc' = "validated"
    /\ steps' = Append(steps, "validate_structure")
    /\ UNCHANGED <<stdin, global_file, project_file, short_threshold,
                   input_data, prompt, global_rules, project_rules,
                   merged_rules, project_agents, project_skills, result,
                   scenario, hint, stdout, exit_code>>

NextValidate == ValidateStructure

SpecValidate == InitValidate /\ [][NextValidate]_vars

-----------------------------------------------------------------------------
(* Properties *)

ExceptionCaught == "handler" \in Range(steps)

\* analyze_prompt has returned a MatchResult
Analyzed ==
    /\ "analyze" \in Range(steps)
    /\ pc = "build" \/ "classify" \in Range(steps)

\* determine_scenario has returned
Classified == scenario # "none"

\* build_output has returned a hint
Rendered ==
    /\ "classify" \in Range(steps)
    /\ pc \in {"write", "final_exit", "exited"}
    /\ ~ExceptionCaught

MatchScenarios == {"agents_only", "skills_only", "agents_and_skills"}

\* C1: whatever stdin and the rule files hold, main() ends with exit status
\* 0 after writing a JSON object whose hookEventName is "UserPromptSubmit";
\* no exception escapes, and no exit status is produced before that.
C1_ExitZeroWithResponse ==
    /\ pc = "exited" =>
          /\ exit_code = 0
          /\ stdout # <<>>
          /\ \A i \in 1..Len(stdout) : stdout[i].hookEventName = "UserPromptSubmit"
    /\ pc # "exited" => exit_code = -1

C1_Witness ==
    /\ pc = "exited"
    /\ stdin.kind = "array"
    /\ global_file.state = "unparseable"
    /\ ExceptionCaught
    /\ exit_code = 0
    /\ Len(stdout) = 1

\* C2: on every path of main() exactly one JSON object is written before
\* the process exits: write_output is never skipped and never called again
\* once a response has been written.
C2_ExactlyOneResponse ==
    /\ Len(stdout) <= 1
    /\ pc = "exited" => Len(stdout) = 1

C2_Witness ==
    /\ pc = "exited"
    /\ "sys_exit" \in Range(steps)
    /\ Len(stdout) = 1

\* the driver's load check failed: `global_rules is None` for a non-empty
\* prompt, `not global_rules` (nothing loaded, or an empty document) for an
\* empty prompt
GlobalLoadFailed ==
    IF prompt = <<>> THEN ~Truthy(load_rules_file(global_file))
    ELSE load_rules_file(global_file).kind = "none"

\* the driver's validation, run for a non-empty prompt on a loaded
\* document, failed
GlobalValidationFailed ==
    /\ prompt # <<>>
    /\ load_rules_file(global_file).kind # "none"
    /\ ~validate_rules(load_rules_file(global_file))

C4_ScenarioTable ==
    pc = "classified" =>
        LET has_agents == result.matched_agents # <<>>
            has_skills == result.matched_skills # <<>>
        IN  /\ scenario \in Scenarios
            /\ has_agents /\ has_skills => scenario = "agents_and_skills"
            /\ has_agents /\ ~has_skills => scenario = "agents_only"
            /\ ~has_agents /\ has_skills => scenario = "skills_only"
            /\ ~has_agents /\ ~has_skills /\ result.word_count < short_threshold
               => scenario = "short_no_match"
            /\ ~has_agents /\ ~has_skills /\ result.word_count >= short_threshold
               => scenario = "long_no_match"

C4_Witness ==
    /\ pc = "classified"
    /\ result.matched_agents = <<>>
    /\ result.matched_skills = <<>>
    /\ result.word_count = short_threshold
    /\ short_threshold > 0
    /\ scenario = "long_no_match"

CategoryHit(c) == TriggerCount(c, normalize_text(prompt)) > 0

SkillHit(sk) == SkillWeight(sk, normalize_text(prompt)) > 0

SomeCategoryHit ==
    \E i \in 1..Len(merged_rules.categories) : CategoryHit(merged_rules.categories[i])

SomeSkillHit ==
    \E i \in 1..Len(merged_rules.skills) : SkillHit(merged_rules.skills[i])

\* a category with trigger hits lists a named agent among its first two
NamedAgentOffered ==
    \E i \in 1..Len(merged_rules.categories) :
        /\ CategoryHit(merged_rules.categories[i])
        /\ \E j \in 1..Len(merged_rules.categories[i].agents) :
              j <= 2 /\ merged_rules.categories[i].agents[j].name # ""

\* C5 as stated: when some agent category has a trigger hit, the scenario
\* is AGENTS_ONLY if no skill matches and AGENTS_AND_SKILLS if one does.
C5_CategoryHitGivesAgentScenario ==
    Classified /\ SomeCategoryHit =>
        scenario = IF SomeSkillHit THEN "agents_and_skills" ELSE "agents_only"

\* C5 amended: when some category with a trigger hit lists a named agent
\* among its first two agents, the scenario is AGENTS_ONLY if no skill
\* matches and AGENTS_AND_SKILLS if one does.
C5_NamedAgentGivesAgentScenario ==
    Classified /\ NamedAgentOffered =>
        scenario = IF SomeSkillHit THEN "agents_and_skills" ELSE "agents_only"

C5_Witness ==
    /\ Classified
    /\ NamedAgentOffered
    /\ SomeSkillHit
    /\ scenario = "agents_and_skills"

HintAgentNames == {hint[i].s : i \in {j \in 1..Len(hint) : hint[j].k = "agent"}}

AgentTemplateInUse ==
    IF scenario = "agents_only" THEN agents_only_template(result, merged_rules)
    ELSE agents_and_skills_template(result, merged_rules)

\* C6 as stated: in the AGENTS_ONLY and AGENTS_AND_SKILLS scenarios the hint
\* contains the name of every agent of matched_agents.
C6_HintNamesEveryAgent ==
    Rendered /\ scenario \in {"agents_only", "agents_and_skills"} =>
        \A i \in 1..Len(result.matched_agents) :
            result.matched_agents[i].name \in HintAgentNames

\* C6 amended: in those scenarios, when the template in use has the
\* {agent_list} field, the hint contains the name of each of the first
\* three agents of matched_agents.
C6_HintNamesFirstThreeAgents ==
    /\ Rendered
    /\ scenario \in {"agents_only", "agents_and_skills"}
    /\ "{agent_list}" \in Range(AgentTemplateInUse)
    => \A i \in 1..Len(result.matched_agents) :
          i <= 3 => result.matched_agents[i].name \in HintAgentNames

C6_Witness ==
    /\ Rendered
    /\ scenario = "agents_only"
    /\ Len(result.matched_agents) = 4
    /\ "{agent_list}" \in Range(AgentTemplateInUse)
    /\ Cardinality(HintAgentNames) = 3

\* an occurrence of t at i in p that runs on into a longer word
EmbeddedAt(t, p, i) ==
    LET j == i + Len(t) - 1
    IN  \/ i > 1 /\ IsWordChar(p[i - 1]) /\ IsWordChar(t[1])
        \/ j < Len(p) /\ IsWordChar(p[j + 1]) /\ IsWordChar(t[Len(t)])

\* t occurs in p, and only as a proper part of longer words
OnlyInsideWords(t, p) ==
    /\ t # <<>>
    /\ Contains(t, p)
    /\ \A i \in Starts(t, p) : OccursAt(t, p, i) => EmbeddedAt(t, p, i)

\* no trigger of d occurs in p other than inside longer words
NoWholeWordTrigger(d, p) ==
    \A k \in 1..Len(d.triggers) :
        \/ ~Contains(LowerStr(d.triggers[k]), p)
        \/ OnlyInsideWords(LowerStr(d.triggers[k]), p)

\* C7: a trigger that occurs in the normalized prompt only as a proper part
\* of a longer word contributes nothing: it is not a hit, and a category or
\* skill (without pattern hits) with only such triggers is not matched.
C7_NoPartialWordHit ==
    Analyzed =>
        LET p == normalize_text(prompt)
            cs == merged_rules.categories
            ss == merged_rules.skills
        IN  /\ \A i \in 1..Len(cs) : \A k \in 1..Len(cs[i].triggers) :
                  OnlyInsideWords(LowerStr(cs[i].triggers[k]), p)
                  => ~TriggerHit(cs[i].triggers[k], p)
            /\ \A i \in 1..Len(ss) : \A k \in 1..Len(ss[i].triggers) :
                  OnlyInsideWords(LowerStr(ss[i].triggers[k]), p)
                  => ~TriggerHit(ss[i].triggers[k], p)
            /\ \A i \in 1..Len(cs) :
                  NoWholeWordTrigger(cs[i], p)
                  => cs[i].name \notin Range(result.matched_categories)
            /\ \A i \in 1..Len(ss) :
                  NoWholeWordTrigger(ss[i], p) /\ PatternWeight(ss[i], p) = 0
                  => ss[i].name \notin Range(result.matched_skills)

C7_Witness ==
    /\ Analyzed
    /\ result.matched_categories # <<>>
    /\ \E i \in 1..Len(merged_rules.categories) :
          /\ \E k \in 1..Len(merged_rules.categories[i].triggers) :
                OnlyInsideWords(LowerStr(merged_rules.categories[i].triggers[k]),
                                normalize_text(prompt))
          /\ merged_rules.categories[i].name \notin Range(result.matched_categories)

LowerTriggers(d) ==
    [d EXCEPT !.triggers = [k \in 1..Len(d.triggers) |-> LowerStr(d.triggers[k])]]

LowerRules(rules) ==
    [rules EXCEPT
       !.categories = [i \in 1..Len(rules.categories) |->
                          LowerTriggers(rules.categories[i])],
       !.skills = [i \in 1..Len(rules.skills) |-> LowerTriggers(rules.skills[i])]]

SameMatches(r1, r2) ==
    /\ r1.matched_categories = r2.matched_categories
    /\ r1.matched_agents = r2.matched_agents
    /\ r1.matched_skills = r2.matched_skills
    /\ r1.match_count = r2.match_count

\* C8: matching is case-insensitive: the prompt and the prompt in lower
\* case (so any two prompts that differ only in letter case) give the same
\* matched_categories, matched_agents, matched_skills and match_count, and
\* so does the rule set with its triggers in lower case.
C8_CaseInsensitive ==
    Analyzed =>
        /\ SameMatches(result,
                       analyze_prompt(LowerStr(prompt), merged_rules,
                                      project_agents, project_skills).res)
        /\ SameMatches(result,
                       analyze_prompt(prompt, LowerRules(merged_rules),
                                      project_agents, project_skills).res)

C8_Witness ==
    /\ Analyzed
    /\ prompt # LowerStr(prompt)
    /\ merged_rules # LowerRules(merged_rules)
    /\ result.matched_categories # <<>>
    /\ result.matched_skills # <<>>

\* the literal text of a hint and of a template
RECURSIVE TextOf(_)
TextOf(h) ==
    IF h = <<>> THEN <<>>
    ELSE (IF Head(h).k = "text" THEN <<Head(h).s>> ELSE <<>>) \o TextOf(Tail(h))

RECURSIVE TemplateText(_)
TemplateText(tpl) ==
    IF tpl = <<>> THEN <<>>
    ELSE (IF Head(tpl) \in Fields THEN <<>> ELSE <<Head(tpl)>>)
         \o TemplateText(Tail(tpl))

NormalKey == scenario

ProjectKey ==
    CASE scenario = "agents_only" -> "project_agents_only"
      [] scenario = "skills_only" -> "project_skills_only"
      [] OTHER -> "project_agents_and_skills"

NormalDefault ==
    CASE scenario = "agents_only" -> DefaultAgentsOnly
      [] scenario = "skills_only" -> DefaultSkillsOnly
      [] OTHER -> DefaultAgentsAndSkills

MandatoryDefault ==
    CASE scenario = "agents_only" -> DefaultProjectAgentsOnly
      [] scenario = "skills_only" -> DefaultProjectSkillsOnly
      [] OTHER -> DefaultProjectAgentsAndSkills

HasEntry(key) == merged_rules.it = "object" /\ merged_rules.templates[key].present

DefinesTemplate(key) == HasEntry(key) /\ merged_rules.templates[key].has

NormalTemplate ==
    IF DefinesTemplate(NormalKey) THEN merged_rules.templates[NormalKey].tpl
    ELSE NormalDefault

\* C9 as stated: with project matches in a match scenario the hint comes
\* from the project template (the rule set's or the MANDATORY default),
\* never from the normal template; without them from the normal template.
C9_ProjectMatchesUseProjectTemplate ==
    Rendered /\ scenario \in MatchScenarios =>
        TextOf(hint) = TemplateText(
            IF result.has_project_matches
            THEN IF DefinesTemplate(ProjectKey)
                 THEN merged_rules.templates[ProjectKey].tpl
                 ELSE MandatoryDefault
            ELSE NormalTemplate)

\* C9 amended: with project matches the hint comes from the rule set's
\* project template when it defines one; from the rule set's normal
\* template when the rule set has no project entry but defines the normal
\* template; otherwise from the MANDATORY default.  Without project matches
\* it comes from the normal template.
C9_ProjectTemplateWithFallback ==
    Rendered /\ scenario \in MatchScenarios =>
        TextOf(hint) = TemplateText(
            IF result.has_project_matches
            THEN IF DefinesTemplate(ProjectKey)
                 THEN merged_rules.templates[ProjectKey].tpl
                 ELSE IF ~HasEntry(ProjectKey) /\ DefinesTemplate(NormalKey)
                 THEN merged_rules.templates[NormalKey].tpl
                 ELSE MandatoryDefault
            ELSE NormalTemplate)

C9_Witness ==
    /\ Rendered
    /\ scenario \in MatchScenarios
    /\ result.has_project_matches
    /\ ~DefinesTemplate(ProjectKey)
    /\ TextOf(hint) = TemplateText(MandatoryDefault)

\* a violation of the structural rules of the global document: a required
\* key missing or not a mapping, a category not a mapping or without
\* triggers or agents as sequences, a skill not a mapping or without
\* triggers as a sequence
StructurallyInvalid(doc) ==
    \/ doc.kind # "object"
    \/ doc.ac # "object" \/ doc.sk # "object" \/ doc.it # "object"
    \/ \E i \in 1..Len(doc.categories) :
          \/ doc.categories[i].t # "object"
          \/ doc.categories[i].trig # "array"
          \/ doc.categories[i].agt # "array"
    \/ \E i \in 1..Len(doc.skills) :
          \/ doc.skills[i].t # "object"
          \/ doc.skills[i].trig # "array"

\* C10: for a non-empty prompt and a structurally invalid global rules
\* document the driver emits the neutral response, without
\* additionalContext, and performs no matching.
C10_InvalidRulesGetNeutralResponse ==
    /\ pc = "exited"
    /\ prompt # <<>>
    /\ global_file.state = "json"
    /\ StructurallyInvalid(global_file.doc)
    => /\ stdout # <<>>
       /\ ~stdout[1].hasContext
       /\ "analyze" \notin Range(steps)

\* the violations of the structural rules, one element for each
Violations(doc) ==
    {<<"key", k>> : k \in {x \in {"ac", "sk", "it"} :
                             /\ x = "ac" => doc.ac # "object"
                             /\ x = "sk" => doc.sk # "object"
                             /\ x = "it" => doc.it # "object"}}
    \cup {<<"category", doc.categories[i].name>> :
             i \in {j \in 1..Len(doc.categories) : doc.categories[j].t # "object"}}
    \cup {<<"category triggers", doc.categories[i].name>> :
             i \in {j \in 1..Len(doc.categories) :
                      /\ doc.categories[j].t = "object"
                      /\ doc.categories[j].trig # "array"}}
    \cup {<<"category agents", doc.categories[i].name>> :
             i \in {j \in 1..Len(doc.categories) :
                      /\ doc.categories[j].t = "object"
                      /\ doc.categories[j].agt # "array"}}
    \cup {<<"skill", doc.skills[i].name>> :
             i \in {j \in 1..Len(doc.skills) : doc.skills[j].t # "object"}}
    \cup {<<"skill triggers", doc.skills[i].name>> :
             i \in {j \in 1..Len(doc.skills) :
                      /\ doc.skills[j].t = "object"
                      /\ doc.skills[j].trig # "array"}}

MergeCalled == steps # <<>> /\ steps[Len(steps)] = "merge"

Merged == MergeCalled /\ pc = "analyze"

\* C12: merging absent (None) project rules is the identity: the result is
\* the global rule set, with no project agents and no project skills.
C12_MergeNoneIsIdentity ==
    MergeCalled /\ project_rules = NoneDoc =>
        /\ pc = "analyze"
        /\ merged_rules = global_rules
        /\ project_agents = {}
        /\ project_skills = {}

C12_Witness ==
    /\ Merged
    /\ project_rules = NoneDoc
    /\ merged_rules = global_rules
    /\ merged_rules.categories # <<>>

UtilityExists == HasName(Section(merged_rules.ac, merged_rules.categories), "utility")

AgentNamed(c, n) == \E j \in 1..Len(c.agents) : c.agents[j].name = n

\* C13: every custom_agents entry is appended to the catch-all `utility`
\* category as an agent {name, purpose}, with its triggers added to that
\* category's triggers and its name in project_agents; without the
\* catch-all category the entry is dropped and not in project_agents.
C13_CustomAgentsJoinUtility ==
    Merged /\ project_rules.ca = "object" =>
        \A k \in 1..Len(project_rules.custom) :
            LET e == project_rules.custom[k]
                cs == merged_rules.categories
            IN  IF UtilityExists
                THEN LET u == cs[IndexOf(cs, "utility")]
                     IN  /\ \E j \in 1..Len(u.agents) :
                               /\ u.agents[j].name = e.name
                               /\ u.agents[j].purpose =
                                     IF e.has_description THEN e.description
                                     ELSE "Custom project agent"
                         /\ Range(e.triggers) \subseteq Range(u.triggers)
                         /\ e.name \in project_agents
                ELSE /\ e.name \notin project_agents
                     /\ \A i \in 1..Len(cs) : ~AgentNamed(cs[i], e.name)

\* the merge of the same documents without the skill_mappings section
BeforeMappings ==
    merge_rules(global_rules,
                [project_rules EXCEPT !.sm = "absent", !.mappings = <<>>])

\* the keywords the project maps to the skill named n
MappedKeywords(n) ==
    {project_rules.mappings[k].keyword :
        k \in {j \in 1..Len(project_rules.mappings) :
                 n \in Range(project_rules.mappings[j].skills)}}

MappedNames == UNION {Range(project_rules.mappings[k].skills) :
                         k \in 1..Len(project_rules.mappings)}

IsPrefix(a, b) == Len(a) <= Len(b) /\ Take(b, Len(a)) = a

\* C14: after merge_rules, every keyword of skill_mappings is in the
\* trigger list of each named skill that exists, appended only if it was
\* not there, and the skill is in project_skills; a named skill that does
\* not exist is neither created nor marked, and does not make the merge fail.
C14_MappingsAppendOnce ==
    /\ Merged /\ project_rules.sm = "object" =>
          LET pre == BeforeMappings
              before == pre.rules.skills
              after == merged_rules.skills
          IN  /\ Len(after) = Len(before)
              /\ \A i \in 1..Len(after) :
                    LET a == before[i].triggers
                        b == after[i].triggers
                        added == {k \in 1..Len(b) : k > Len(a)}
                    IN  /\ after[i].name = before[i].name
                        /\ IsPrefix(a, b)
                        /\ MappedKeywords(after[i].name) \subseteq Range(b)
                        /\ \A k \in added :
                              /\ b[k] \in MappedKeywords(after[i].name)
                              /\ b[k] \notin Range(a)
                              /\ \A l \in added : b[l] = b[k] => l = k
                        /\ after[i].name \in MappedNames
                           => after[i].name \in project_skills
              /\ project_skills =
                    pre.ps \cup {n \in MappedNames : HasName(after, n)}
    /\ /\ MergeCalled
       /\ project_rules.sm = "object"
       /\ ~BeforeMappings.exc
       /\ \A k \in 1..Len(project_rules.mappings) : project_rules.mappings[k].t = "array"
       /\ \A i \in 1..Len(BeforeMappings.rules.skills) :
             BeforeMappings.rules.skills[i].trig = "array"
       => pc = "analyze"

C14_Witness ==
    /\ Merged
    /\ project_rules.sm = "object"
    /\ \E i \in 1..Len(merged_rules.skills) :
          /\ merged_rules.skills[i].name = "s1"
          /\ <<"b">> \in MappedKeywords("s1")
          /\ merged_rules.skills[i].triggers = BeforeMappings.rules.skills[i].triggers
          /\ <<"a">> \notin Range(BeforeMappings.rules.skills[i].triggers)
    /\ "nosuch" \in MappedNames
    /\ "nosuch" \notin project_skills
    /\ \E i \in 1..Len(merged_rules.skills) :
          /\ merged_rules.skills[i].name = "s2"
          /\ Len(merged_rules.skills[i].triggers)
                = Len(BeforeMappings.rules.skills[i].triggers) + 1

Overrides == Section(project_rules.trg, project_rules.triggers)

Overridden(n) == \E k \in 1..Len(Overrides) : Overrides[k].category = n

OverrideOf(n) == Overrides[CHOOSE k \in 1..Len(Overrides) : Overrides[k].category = n]

\* C15: a category named in the project's `triggers` override keeps its
\* triggers in order, has the project triggers appended after them without
\* de-duplication, and has the names of all its agents in project_agents;
\* the other categories keep their triggers and contribute no names.
C15_TriggerOverridesAppend ==
    Merged =>
        LET before == global_rules.categories
            after == merged_rules.categories
        IN  /\ Len(after) = Len(before)
            /\ \A i \in 1..Len(after) :
                  /\ after[i].name = before[i].name
                  /\ after[i].agents = before[i].agents
                  /\ after[i].triggers =
                        IF Overridden(before[i].name)
                        THEN before[i].triggers \o OverrideOf(before[i].name).triggers
                        ELSE before[i].triggers
            /\ project_agents =
                  UNION {{before[i].agents[j].name : j \in 1..Len(before[i].agents)} :
                            i \in {k \in 1..Len(before) : Overridden(before[k].name)}}

C15_Witness ==
    /\ Merged
    /\ \E i \in 1..Len(merged_rules.categories) :
          /\ merged_rules.categories[i].name = "dev"
          /\ Overridden("dev")
          /\ merged_rules.categories[i].triggers
                = global_rules.categories[i].triggers \o <<<<"a">>, <<"a">>>>
          /\ <<"a">> \in Range(global_rules.categories[i].triggers)
    /\ "x2" \in project_agents
    /\ "y1" \notin project_agents
    /\ Len(merged_rules.categories) > 1

ProjectSkills == Section(project_rules.sk, project_rules.skills)

\* C16: a project skill whose name exists has its triggers appended to the
\* existing skill's triggers, the existing patterns and purpose being kept;
\* otherwise the project's record is inserted as it is; in both cases the
\* name is in project_skills.
C16_ProjectSkillsExtendOrInsert ==
    Merged =>
        LET before == global_rules.skills
            after == merged_rules.skills
            exact == project_rules.sm = "absent"
        IN  /\ \A i \in 1..Len(before) : after[i].name = before[i].name
            /\ \A k \in 1..Len(ProjectSkills) :
                  LET e == ProjectSkills[k]
                  IN  /\ e.name \in project_skills
                      /\ HasName(after, e.name)
                      /\ LET i == IndexOf(after, e.name)
                             expected == IF HasName(before, e.name)
                                         THEN before[i].triggers \o e.triggers
                                         ELSE e.triggers
                         IN  /\ IsPrefix(expected, after[i].triggers)
                             /\ exact => after[i].triggers = expected
                             /\ after[i].patterns =
                                   IF HasName(before, e.name) THEN before[i].patterns
                                   ELSE e.patterns
                             /\ after[i].purpose =
                                   IF HasName(before, e.name) THEN before[i].purpose
                                   ELSE e.purpose
                             /\ HasName(before, e.name) <=> i <= Len(before)
            /\ Len(after) = Len(before)
                  + Cardinality({k \in 1..Len(ProjectSkills) :
                                    ~HasName(before, ProjectSkills[k].name)})

C16_Witness ==
    /\ Merged
    /\ project_rules.sm = "absent"
    /\ Len(ProjectSkills) = 2
    /\ Len(merged_rules.skills) = Len(global_rules.skills) + 1
    /\ \E i \in 1..Len(global_rules.skills) :
          /\ HasName(ProjectSkills, global_rules.skills[i].name)
          /\ merged_rules.skills[i].patterns # <<Lit(<<"b">>)>>
          /\ merged_rules.skills[i].purpose # "project"

HitCategories ==
    {i \in 1..Len(merged_rules.categories) : CategoryHit(merged_rules.categories[i])}

\* the agents the matched categories offer: the first two of each
Offered ==
    {<<i, j>> \in HitCategories \X (1..2) : j <= Len(merged_rules.categories[i].agents)}

OfferedNames ==
    {merged_rules.categories[o[1]].agents[o[2]].name : o \in Offered} \ {""}

MatchedAgentNames ==
    {result.matched_agents[i].name : i \in 1..Len(result.matched_agents)}

\* C17: matched_agents never holds two agents of the same name and never
\* holds more than four agents.
C17_MatchedAgentsUniqueAtMostFour ==
    Analyzed
    => /\ Len(result.matched_agents) <= 4
       /\ \A i, j \in 1..Len(result.matched_agents) :
             result.matched_agents[i].name = result.matched_agents[j].name => i = j

C17_Witness ==
    /\ Analyzed
    /\ Cardinality(Offered) > Cardinality(OfferedNames)
    /\ Cardinality(OfferedNames) > 4
    /\ Len(result.matched_agents) = 4

\* every agent of a matched category, listed in matched_agents or not
CategoryAgentNames ==
    UNION {{merged_rules.categories[i].agents[j].name :
               j \in 1..Len(merged_rules.categories[i].agents)} : i \in HitCategories}

HitSkillNames ==
    {merged_rules.skills[i].name :
        i \in {k \in 1..Len(merged_rules.skills) : SkillHit(merged_rules.skills[k])}}

\* C18 as stated: has_project_matches is true exactly when an agent of
\* matched_agents or a skill of matched_skills is project-sourced, and the
\* two project_matched lists hold only names found in matched_agents and
\* matched_skills.
C18_ProjectMatchesAmongReported ==
    Analyzed
    => /\ result.has_project_matches
             <=> \/ MatchedAgentNames \cap project_agents # {}
                 \/ Range(result.matched_skills) \cap project_skills # {}
       /\ Range(result.project_matched_agents) \subseteq MatchedAgentNames
       /\ Range(result.project_matched_skills) \subseteq Range(result.matched_skills)

\* C18, amended: has_project_matches is true exactly when one of the two
\* project_matched lists is non-empty; project_matched_agents holds the
\* project-sourced names among all agents of the matched categories and
\* project_matched_skills the project-sourced names among all skills of
\* non-zero weight, whether or not they are listed in matched_agents and
\* matched_skills.
C18_ProjectMatchesAmongAllMatched ==
    Analyzed
    => /\ result.has_project_matches
             <=> \/ result.project_matched_agents # <<>>
                 \/ result.project_matched_skills # <<>>
       /\ Range(result.project_matched_agents) = CategoryAgentNames \cap project_agents
       /\ Range(result.project_matched_skills) = HitSkillNames \cap project_skills

C18_Witness ==
    /\ Analyzed
    /\ result.has_project_matches
    /\ result.project_matched_agents # <<>>
    /\ MatchedAgentNames \cap project_agents = {}
    /\ Range(result.matched_skills) \cap project_skills = {}

\* C19: match_count is the sum of the hit counts of the matched categories
\* plus the weights of all matched skills, those left out of matched_skills
\* included.
C19_CountSumsAllSkillWeights ==
    Analyzed
    => result.match_count =
          SumSeq([i \in 1..Len(merged_rules.categories) |->
                     TriggerCount(merged_rules.categories[i], normalize_text(prompt))])
          + SumSeq([i \in 1..Len(merged_rules.skills) |->
                       SkillWeight(merged_rules.skills[i], normalize_text(prompt))])

MatchingTriggers(sk) ==
    {k \in 1..Len(sk.triggers) : TriggerHit(sk.triggers[k], normalize_text(prompt))}

MatchingPatterns(sk) ==
    {k \in 1..Len(sk.patterns) :
        /\ sk.patterns[k] # BadPattern
        /\ PatternHit(sk.patterns[k], normalize_text(prompt))}

\* each matching trigger once, each matching pattern twice
Weight(sk) == Cardinality(MatchingTriggers(sk)) + 2 * Cardinality(MatchingPatterns(sk))

SkillOf(n) ==
    merged_rules.skills[CHOOSE i \in 1..Len(merged_rules.skills) :
                            merged_rules.skills[i].name = n]

HasBadPattern ==
    \E i \in 1..Len(merged_rules.skills) :
        BadPattern \in Range(merged_rules.skills[i].patterns)

\* C20: a skill's weight is the number of its triggers found in the prompt,
\* each counted once, plus two for each of its patterns found; a pattern that
\* is not a valid regular expression adds nothing and does not stop the
\* analysis, and the hint is still written.
C20_SkillWeight ==
    /\ Analyzed
       => /\ \A i \in 1..Len(result.matched_skills) :
                /\ result.matched_skills[i] \in HitSkillNames
                /\ Weight(SkillOf(result.matched_skills[i])) > 0
                /\ \A j \in 1..Len(result.matched_skills) :
                      i < j => Weight(SkillOf(result.matched_skills[i]))
                                  >= Weight(SkillOf(result.matched_skills[j]))
          /\ \A i \in 1..Len(merged_rules.skills) :
                Weight(merged_rules.skills[i]) > 0 /\ Len(result.matched_skills) < 3
                => merged_rules.skills[i].name \in Range(result.matched_skills)
          /\ result.match_count =
                SumSeq([i \in 1..Len(merged_rules.categories) |->
                           TriggerCount(merged_rules.categories[i], normalize_text(prompt))])
                + SumSeq([i \in 1..Len(result.matched_skills) |->
                             Weight(SkillOf(result.matched_skills[i]))])
    /\ HasBadPattern /\ merged_rules.templates = NoTemplates /\ pc = "exited"
       => /\ ~ExceptionCaught
          /\ Len(stdout) = 1
          /\ stdout[1].hasContext

C20_Witness ==
    /\ HasBadPattern
    /\ pc = "exited"
    /\ stdout # <<>>
    /\ stdout[1].hasContext
    /\ \E i \in 1..Len(merged_rules.skills) :
          LET sk == merged_rules.skills[i]
          IN  /\ BadPattern \in Range(sk.patterns)
              /\ sk.name \in Range(result.matched_skills)
              /\ Cardinality(MatchingTriggers(sk)) = 1
              /\ Cardinality(MatchingPatterns(sk)) = 1
              /\ Weight(sk) = 3
    /\ prompt = <<"b", " ", "b">>

CategoryOf(n) ==
    merged_rules.categories[CHOOSE i \in 1..Len(merged_rules.categories) :
                                merged_rules.categories[i].name = n]

\* the first two agents of each matched category, in matched-category order
OfferedAgents ==
    Flatten([i \in 1..Len(result.matched_categories) |->
                Take(CategoryOf(result.matched_categories[i]).agents, 2)])

\* the entries of a list of agents whose name no earlier entry carries
FirstOfName(agents) ==
    SelectBy(agents, [i \in 1..Len(agents) |->
                         \A j \in 1..(i - 1) : agents[j].name # agents[i].name])

WithName(agents) ==
    SelectBy(agents, [i \in 1..Len(agents) |-> agents[i].name # ""])

\* C21 as stated: matched_agents is the first two agents of each matched
\* category in matched-category order, without the later agents of a name
\* already seen, cut to the first four.
C21_FirstTwoDedupedCapped ==
    Analyzed => result.matched_agents = Take(FirstOfName(OfferedAgents), 4)

\* C21, amended: matched_agents is the first two agents of each matched
\* category in matched-category order, without the agents that have no name
\* and without the later agents of a name already seen, cut to the first four.
C21_FirstTwoNamedDedupedCapped ==
    Analyzed => result.matched_agents = Take(FirstOfName(WithName(OfferedAgents)), 4)

C21_Witness ==
    /\ Analyzed
    /\ Len(result.matched_categories) = 3
    /\ Len(OfferedAgents) = 6
    /\ Len(FirstOfName(OfferedAgents)) = 5
    /\ Len(result.matched_agents) = 4
    /\ result.matched_categories[1] # merged_rules.categories[1].name

HitCount(d) ==
    Cardinality({k \in 1..Len(d.triggers) :
                    TriggerHit(d.triggers[k], normalize_text(prompt))})

PlaceOf(n) ==
    CHOOSE i \in 1..Len(merged_rules.categories) : merged_rules.categories[i].name = n

\* C22: matched_categories lists exactly the categories with a trigger hit,
\* by descending hit count, categories of equal count in the order the rule
\* set defines them.
C22_CategoriesByCountStable ==
    Analyzed
    => /\ Range(result.matched_categories) =
             {merged_rules.categories[i].name :
                 i \in {k \in 1..Len(merged_rules.categories) :
                           HitCount(merged_rules.categories[k]) > 0}}
       /\ \A p, q \in 1..Len(result.matched_categories) :
             p < q =>
                LET a == result.matched_categories[p]
                    b == result.matched_categories[q]
                IN  \/ HitCount(CategoryOf(a)) > HitCount(CategoryOf(b))
                    \/ /\ HitCount(CategoryOf(a)) = HitCount(CategoryOf(b))
                       /\ PlaceOf(a) < PlaceOf(b)

C22_Witness ==
    /\ Analyzed
    /\ Len(result.matched_categories) = 3
    /\ PlaceOf(result.matched_categories[1]) = 2
    /\ HitCount(CategoryOf(result.matched_categories[2]))
          = HitCount(CategoryOf(result.matched_categories[3]))
    /\ \E i \in 1..Len(merged_rules.categories) :
          HitCount(merged_rules.categories[i]) = 0

\* C23: matched_skills names at most three skills, each of non-zero weight,
\* by descending weight, and no skill outside it outweighs a skill inside it.
C23_TopThreeSkills ==
    Analyzed
    => /\ Len(result.matched_skills) <= 3
       /\ \A p \in 1..Len(result.matched_skills) :
             /\ \E i \in 1..Len(merged_rules.skills) :
                   merged_rules.skills[i].name = result.matched_skills[p]
             /\ Weight(SkillOf(result.matched_skills[p])) > 0
             /\ \A q \in 1..Len(result.matched_skills) :
                   p < q => Weight(SkillOf(result.matched_skills[p]))
                               >= Weight(SkillOf(result.matched_skills[q]))
             /\ \A i \in 1..Len(merged_rules.skills) :
                   merged_rules.skills[i].name \notin Range(result.matched_skills)
                   => Weight(merged_rules.skills[i])
                         <= Weight(SkillOf(result.matched_skills[p]))

C23_Witness ==
    /\ Analyzed
    /\ Len(result.matched_skills) = 3
    /\ \E i \in 1..Len(merged_rules.skills) :
          /\ Weight(merged_rules.skills[i]) > 0
          /\ merged_rules.skills[i].name \notin Range(result.matched_skills)
    /\ Weight(SkillOf(result.matched_skills[1])) > Weight(SkillOf(result.matched_skills[3]))

\* the agent lines and the skill entries of the hint, in order
HintAgentLines == SelectBy(hint, [i \in 1..Len(hint) |-> hint[i].k = "agent"])

HintSkillEntries == SelectBy(hint, [i \in 1..Len(hint) |-> hint[i].k = "skill"])

FirstThree(s) == SubSeq(s, 1, IF Len(s) > 3 THEN 3 ELSE Len(s))

\* C24: a hint that carries the agent list has one line for each of the first
\* three matched agents, and one that carries the skill list names the first
\* three matched skills; a line or entry bears the project mark exactly when
\* its name is in project_matched_agents or project_matched_skills.
C24_ListsShowFirstThreeWithMarks ==
    Rendered
    => /\ HintAgentLines # <<>> =>
             /\ Len(HintAgentLines) = Len(FirstThree(result.matched_agents))
             /\ \A i \in 1..Len(HintAgentLines) :
                   /\ HintAgentLines[i].s = result.matched_agents[i].name
                   /\ HintAgentLines[i].purpose = result.matched_agents[i].purpose
                   /\ HintAgentLines[i].mark
                         <=> result.matched_agents[i].name
                                \in Range(result.project_matched_agents)
       /\ HintSkillEntries # <<>> =>
             /\ Len(HintSkillEntries) = Len(FirstThree(result.matched_skills))
             /\ \A i \in 1..Len(HintSkillEntries) :
                   /\ HintSkillEntries[i].s = result.matched_skills[i]
                   /\ HintSkillEntries[i].mark
                         <=> result.matched_skills[i]
                                \in Range(result.project_matched_skills)
       /\ scenario \in {"agents_only", "agents_and_skills"}
          /\ "{agent_list}" \in Range(AgentTemplateInUse)
          => HintAgentLines # <<>>
       /\ scenario = "agents_and_skills" /\ merged_rules.templates = NoTemplates
          => HintSkillEntries # <<>>

C24_Witness ==
    /\ Rendered
    /\ scenario = "agents_and_skills"
    /\ Len(result.matched_agents) = 4
    /\ Len(HintAgentLines) = 3
    /\ Len(HintSkillEntries) = 3
    /\ \E i, j \in 1..3 : HintAgentLines[i].mark /\ ~HintAgentLines[j].mark
    /\ \E i, j \in 1..3 : HintSkillEntries[i].mark /\ ~HintSkillEntries[j].mark

\* build_hint has been called
Built == "build_hint" \in Range(steps)

\* the injection_templates key of the scenario and has_project_matches
SelectedKey ==
    IF scenario \in MatchScenarios /\ result.has_project_matches
    THEN ProjectKey ELSE scenario

BuiltInDefault ==
    CASE scenario = "short_no_match" -> DefaultShortNoMatch
      [] scenario = "long_no_match" -> DefaultLongNoMatch
      [] OTHER -> IF result.has_project_matches THEN MandatoryDefault
                  ELSE NormalDefault

EmptyRequest ==
    \/ stdin.kind \in {"empty", "notjson"}
    \/ /\ stdin.kind = "object"
       /\ \/ stdin.prompt_t = "absent"
          \/ stdin.prompt_t = "string" /\ stdin.prompt = <<>>

GlobalDocument == load_rules_file(global_file)

\* the text of the short_no_match template of the global document
ShortTemplateText ==
    TemplateText(IF /\ GlobalDocument.it = "object"
                    /\ GlobalDocument.templates["short_no_match"].present
                    /\ GlobalDocument.templates["short_no_match"].has
                 THEN GlobalDocument.templates["short_no_match"].tpl
                 ELSE DefaultShortNoMatch)

SkippedSteps == {"validate", "load_project", "merge", "analyze", "classify"}

NonEmptyDocument ==
    /\ GlobalDocument.kind # "none"
    /\ GlobalDocument # [NoneDoc EXCEPT !.kind = "object"]

NonEmptyRequest ==
    stdin.kind = "object" /\ stdin.prompt_t = "string" /\ stdin.prompt # <<>>

StepOrder ==
    <<"read_input", "load_global", "validate", "load_project", "merge",
      "analyze", "classify", "build_hint", "handler", "emit", "sys_exit", "exit">>

StepPlace(st) == CHOOSE k \in 1..Len(StepOrder) : StepOrder[k] = st

\* the global document has the three sections the driver's validation asks for
GlobalAccepted ==
    /\ GlobalDocument.kind = "object"
    /\ GlobalDocument.ac # "absent"
    /\ GlobalDocument.sk # "absent"
    /\ GlobalDocument.it # "absent"

LaterSteps == {"load_project", "merge", "analyze", "classify", "build_hint"}

\* C27: for a non-empty prompt the driver's steps come in the order load
\* global rules, validate, load project rules, merge, analyze, classify,
\* build hint, emit, none before the one it follows; the project rules are
\* read only once the global rules loaded and passed the validation; when
\* the load or the validation fails the neutral response is written and none
\* of the later steps runs.
C27_FixedStepOrder ==
    NonEmptyRequest
    => /\ \A i, j \in 1..Len(steps) :
             i < j => StepPlace(steps[i]) < StepPlace(steps[j])
       /\ \A k \in 3..8 :
             StepOrder[k] \in Range(steps) => StepOrder[k - 1] \in Range(steps)
       /\ "load_project" \in Range(steps) => GlobalAccepted
       /\ "emit" \in Range(steps) /\ ~ExceptionCaught /\ GlobalAccepted
             => "build_hint" \in Range(steps)
       /\ pc = "exited" /\ ~GlobalAccepted
             => /\ stdout = <<NeutralOutput>>
                /\ Range(steps) \cap LaterSteps = {}
                /\ "validate" \in Range(steps) <=> GlobalDocument.kind # "none"
                /\ ~ExceptionCaught

C27_Witness ==
    /\ NonEmptyRequest
    /\ pc = "exited"
    /\ project_rules.kind = "object"
    /\ steps = <<"read_input", "load_global", "validate", "load_project", "merge",
                 "analyze", "classify", "build_hint", "emit", "exit">>

\* the fields str.format is given for the template under a key
GivenFields(key) ==
    CASE key \in {"agents_only", "project_agents_only"} -> {"{agent_list}"}
      [] key \in {"skills_only", "project_skills_only"} -> {"{skill_list}"}
      [] key \in {"agents_and_skills", "project_agents_and_skills"} ->
            {"{agent_list}", "{skill_list}"}
      [] OTHER -> Fields

\* a global rule set of the right shape whose templates name no field that
\* str.format is not given
SoundGlobalRules ==
    /\ GlobalDocument \in GoodRules
    /\ \A key \in TemplateKeys :
          Range(GlobalDocument.templates[key].tpl) \cap Fields \subseteq GivenFields(key)

\* C28: for a non-empty prompt and valid global rules the response carries
\* additionalContext whatever the project rules file holds: nothing, text
\* that does not parse, or a document with override sections of the wrong
\* type.
C28_ProjectRulesNeverSuppressHint ==
    /\ pc = "exited"
    /\ NonEmptyRequest
    /\ stdin.cwd_t # "number"
    /\ SoundGlobalRules
    => /\ stdout # <<>>
       /\ stdout[1].hasContext

MergedSkillNames ==
    {merged_rules.skills[i].name : i \in 1..Len(merged_rules.skills)}

MergedAgentNames ==
    UNION {{merged_rules.categories[i].agents[j].name :
               j \in 1..Len(merged_rules.categories[i].agents)} :
           i \in 1..Len(merged_rules.categories)}

\* the entries of the lists under the project document's project_context
ContextNames ==
    UNION {Range(project_rules.context[i].names) :
              i \in {j \in 1..Len(project_rules.context) :
                        project_rules.context[j].islist}}

\* the names the project document's override sections speak of
OverriddenCategories ==
    {project_rules.triggers[i].category : i \in 1..Len(project_rules.triggers)}

OverrideSkillNames ==
    {project_rules.skills[i].name : i \in 1..Len(project_rules.skills)}
    \cup UNION {Range(project_rules.mappings[i].skills) :
                   i \in 1..Len(project_rules.mappings)}

\* C29 as stated: after merge_rules every name in project_skills is a skill
\* of the merged rule set and every name in project_agents is an agent of a
\* merged category.
C29_ProvenanceNamesMergedEntities ==
    Merged
    => /\ project_skills \subseteq MergedSkillNames
       /\ project_agents \subseteq MergedAgentNames

\* C29, amended: after merge_rules every name in project_agents is an agent
\* of a merged category that the triggers override names, and every name in
\* project_skills is a skill of the merged rule set that the skills or
\* skill_mappings override names, or an entry of a list under the project
\* document's project_context, which need not be a skill at all.
C29_ProvenanceFromOverridesOrContext ==
    Merged
    => /\ project_skills \subseteq
             (MergedSkillNames \cap OverrideSkillNames) \cup ContextNames
       /\ project_agents \subseteq MergedAgentNames
       /\ \A n \in project_agents :
             \E i \in 1..Len(merged_rules.categories) :
                /\ merged_rules.categories[i].name \in OverriddenCategories
                /\ \E j \in 1..Len(merged_rules.categories[i].agents) :
                      merged_rules.categories[i].agents[j].name = n

C29_Witness ==
    /\ Merged
    /\ ContextNames \cap project_skills # {}
    /\ ~(ContextNames \subseteq MergedSkillNames)
    /\ project_skills \cap MergedSkillNames # {}
    /\ project_agents # {}
    /\ ~(OverrideSkillNames \subseteq MergedSkillNames)

\* t occurs in p at i with no letter, digit or underscore right before or
\* right after it
WholeTokenAt(t, p, i) ==
    LET j == i + Len(t) - 1
    IN  /\ OccursAt(t, p, i)
        /\ ~(i > 1 /\ IsWordChar(p[i - 1]))
        /\ ~(j < Len(p) /\ IsWordChar(p[j + 1]))

WholeToken(t, p) == t # <<>> /\ \E i \in Starts(t, p) : WholeTokenAt(t, p, i)

WholeTokenTriggers(d, p) ==
    {k \in 1..Len(d.triggers) : WholeToken(LowerStr(d.triggers[k]), p)}

\* C30: every trigger that occurs in the normalized prompt as a whole token
\* counts as a hit of its category or skill, also when the trigger begins or
\* ends with a character that is not a letter, digit or underscore; so a
\* category with such a trigger is matched.
C30_WholeTokenTriggerCounts ==
    Analyzed
    => LET p == normalize_text(prompt)
           cs == merged_rules.categories
           ss == merged_rules.skills
       IN  /\ \A i \in 1..Len(cs) :
                 /\ Cardinality(WholeTokenTriggers(cs[i], p)) <= TriggerCount(cs[i], p)
                 /\ WholeTokenTriggers(cs[i], p) # {}
                       => cs[i].name \in Range(result.matched_categories)
           /\ \A i \in 1..Len(ss) :
                 Cardinality(WholeTokenTriggers(ss[i], p)) <= TriggerCount(ss[i], p)

====
